---- MODULE Spec2Model ----
(***************************************************************************)
(* Resilient API clients of aloud_data_env: Hotmart (hotmart_utils.py),    *)
(* Tally (tally_utils.py) and TMB (tmb_utils.py).                          *)
(*                                                                         *)
(* One client instance is observed per behaviour (client is chosen in      *)
(* Init).  make_request is modelled at the granularity of one loop         *)
(* iteration: <Client>MakeRequest is the code before the for loop,         *)
(* <Client>Attempt is one iteration of the loop including the response     *)
(* handling and the sleep that follows it.  trace is the log of the        *)
(* externally visible steps of the call in progress (network calls,        *)
(* sleeps, checks); it is reset when a new call begins.                    *)
(*                                                                         *)
(* Three components are also modelled on their own, each with its own      *)
(* specification over the same variables: the request limiter of Tally     *)
(* over a long run of attempts (LimiterSpec), the paginators of the three  *)
(* clients and api_utils.paginated_request (PagSpec), and                  *)
(* sql_utils.DatabaseConnection.execute_batch_update (BatchSpec); so are   *)
(* the constructors of the clients (CtorSpec), api_utils.fetch_multiple_   *)
(* urls (FetchSpec), api_utils.retry_on_failure (RetrySpec), the GraphQL   *)
(* client SwitchyAPI of switchy_utils.py (SwitchySpec) and the Hotmart     *)
(* client before an auth endpoint with malformed answers (TokenSpec).      *)
(***************************************************************************)
EXTENDS Integers, Sequences, FiniteSets, TLC

VARIABLES
    client,        \* which client class this instance is
    now,           \* wall clock, whole seconds since the Unix epoch
    calls,         \* number of public operations started on the instance
    network,       \* number of network calls (auth and data) made so far
    op,            \* the public operation in progress or last finished
    pc,            \* "idle" | "loop" | "returned" | "raised"
    attempt,       \* loop variable of make_request
    max_retries,   \* argument of the make_request in progress
    trace,         \* events of the call in progress
    result,        \* outcome of the last finished call
    hotmart,       \* fields of the Hotmart instance
    tally,         \* fields of the Tally instance
    issued,        \* LimiterSpec: times at which the Tally instance sent a request
    pag,           \* the paginator call in progress (locals of the function)
    batch,         \* the execute_batch_update call in progress
    ctor,          \* the construction of a client (process environment, outcome)
    fetch,         \* the fetch_multiple_urls call in progress
    retry,         \* the call in progress of a function wrapped by retry_on_failure
    switchy        \* the SwitchyAPI method call in progress

\* state of one client instance and of the make_request in progress
core == <<client, now, calls, network, op, pc, attempt, max_retries, trace, result, hotmart, tally>>

\* state of the components modelled on their own
lib == <<ctor, fetch, retry, switchy>>
aux == <<issued, pag, batch, lib>>

vars == <<core, aux>>

----------------------------------------------------------------------------
(* Bounds of the model *)

MaxRetriesArg == 3      \* max_retries ranges over 0..MaxRetriesArg
MaxCalls == 2           \* public operations per behaviour
MaxNetwork == 4         \* network calls (auth and data) per behaviour
MaxElapsed == 70        \* seconds of wall clock explored after StartTime
MaxAttempts == 102      \* requests of one run of the Tally limiter
MaxPageRequests == 3    \* page requests of one paginator call
MaxItems == 2           \* items of one page
MaxRecords == 5         \* length of params_list
MaxBatchSize == 3       \* batch_size ranges over -1..MaxBatchSize
MaxUrls == 3            \* urls of one fetch_multiple_urls call
MaxExtras == 101        \* extra URLs of one update_link_rotator call

(* The clock: time.time() / datetime.now() at the first observed moment. *)
StartTime == 1700000000

Clients == {"Hotmart", "Tally", "TMB"}

None == -1              \* Python None for Optional[int] / Optional[datetime]
NoToken == "None"                  \* Python None for Optional[str]
\* a function that has not been called
NotCalled == [pc |-> "idle"]
\* none of the library functions modelled on their own has been called
LibIdle ==
    ctor = NotCalled /\ fetch = NotCalled /\ retry = NotCalled /\ switchy = NotCalled

\* the clock is explored up to StartTime + MaxElapsed: a sleep (or a tick)
\* of d seconds is followed only when it ends inside the explored span
CanSleep(d) == d <= StartTime + MaxElapsed - now

----------------------------------------------------------------------------
(* HTTP: what one call of requests.request / requests.post can produce *)

Missing == [tag |-> "missing", val |-> 0]     \* header absent
Bad     == [tag |-> "bad", val |-> 0]         \* header present, not a number
Num(n)  == [tag |-> "int", val |-> n]         \* header holding the decimal n

NoHeaders == [limit |-> Missing, remaining |-> Missing, reset |-> Missing]

\* Response headers a server may send (Hotmart reads limit, remaining, reset;
\* Tally reads remaining, reset).
HeaderSets ==
    { NoHeaders,
      [limit |-> Num(120), remaining |-> Num(0), reset |-> Num(30)],
      [limit |-> Num(120), remaining |-> Num(0), reset |-> Num(StartTime + 30)] }

Statuses == {200, 304, 404, 429, 500}

Response(s, h) == [kind |-> "response", status |-> s, headers |-> h, body |-> Missing]
Timeout == [kind |-> "timeout", status |-> 0, headers |-> NoHeaders, body |-> Missing]
ConnectionError == [kind |-> "connection", status |-> 0, headers |-> NoHeaders, body |-> Missing]

\* requests.exceptions.Timeout, or any other RequestException raised by the
\* transport, or a response
Outcomes == {Response(s, h) : s \in Statuses, h \in HeaderSets}
              \cup {Timeout, ConnectionError}

\* the same for a client that reads no response header
BareOutcomes == {Response(s, NoHeaders) : s \in Statuses} \cup {Timeout, ConnectionError}

\* Response.raise_for_status(): HTTPError (a RequestException) for 4xx and 5xx
RaisesForStatusMut(status) == status >= 500 /\ status < 600
RaisesForStatus(status) == status >= 400 /\ status < 600

----------------------------------------------------------------------------
(* Events of the trace *)

\* ev: what happened; kind, n, status, flag: its details
Event(e, k, n, st, f) == [ev |-> e, kind |-> k, n |-> n, status |-> st, flag |-> f]

\* data request number a (0-based) sent and answered by outcome o; expired
\* tells whether the expiry of the token had passed when it was sent
RequestEv(a, o, expired) == Event("request", o.kind, a, o.status, expired)
\* call of the auth endpoint answered by outcome o; ok = authenticate returned
AuthEv(o, ok)         == Event("authenticate", o.kind, 0, o.status, ok)
\* time.sleep(d); k names the statement that slept
SleepEv(k, d)         == Event("sleep", k, d, 0, FALSE)
\* a check made before a request; k is what it found
CheckEv(e, k)         == Event(e, k, 0, 0, FALSE)

Returned(status) == [kind |-> "return", status |-> status, error |-> "none", msg |-> "none"]
Raised(err, m)   == [kind |-> "raise", status |-> 0, error |-> err, msg |-> m]
NoResult         == [kind |-> "none", status |-> 0, error |-> "none", msg |-> "none"]

----------------------------------------------------------------------------
(* TMB *)

\* time.sleep(2 ** attempt)
TMBBackoff(a) == 2 ^ a

\* if attempt < max_retries - 1, on a 429
TMBCanRetry429(a, mr) == a < mr - 1

\* if attempt == max_retries - 1, in the except clauses
TMBLastAttemptMut(a, mr) == a = mr
TMBLastAttempt(a, mr) == a = mr - 1

\* for attempt in range(max_retries): is attempt a inside the range
TMBInRangeMut(a, mr) == a <= mr
TMBInRange(a, mr) == a < mr

\* body of the for loop for one attempt with outcome o: <<trace', pc', result'>>
TMBHandle(o, a, mr, tr) ==
    LET sent == Append(tr, RequestEv(a, o, FALSE)) IN
    IF o.kind = "response" /\ o.status = 429 THEN
        IF TMBCanRetry429(a, mr)
        THEN [trace |-> Append(sent, SleepEv("rate429", 60)), pc |-> "loop",
              result |-> NoResult, slept |-> 60]
        ELSE [trace |-> sent, pc |-> "raised",
              result |-> Raised("TMBAPIError", "rate_limit"), slept |-> 0]
    ELSE IF o.kind = "response" /\ ~RaisesForStatus(o.status) THEN
        [trace |-> sent, pc |-> "returned", result |-> Returned(o.status), slept |-> 0]
    ELSE IF TMBLastAttempt(a, mr) THEN
        [trace |-> sent, pc |-> "raised",
         result |-> Raised("TMBAPIError", IF o.kind = "timeout" THEN "timeout" ELSE "request"),
         slept |-> 0]
    ELSE
        [trace |-> Append(sent, SleepEv("backoff", TMBBackoff(a))), pc |-> "loop",
         result |-> NoResult, slept |-> TMBBackoff(a)]

TMBMakeRequest(mr) ==
    /\ client = "TMB"
    /\ pc # "loop"
    /\ calls < MaxCalls
    /\ calls' = calls + 1
    /\ op' = "make_request"
    /\ max_retries' = mr
    /\ attempt' = 0
    /\ trace' = <<>>
    /\ result' = NoResult
    /\ pc' = "loop"
    /\ UNCHANGED <<client, now, network, hotmart, tally, aux>>

TMBAttempt(o) ==
    /\ client = "TMB"
    /\ pc = "loop"
    /\ TMBInRange(attempt, max_retries)
    /\ network < MaxNetwork
    /\ network' = network + 1
    /\ LET h == TMBHandle(o, attempt, max_retries, trace) IN
        /\ CanSleep(h.slept)
        /\ now' = now + h.slept
        /\ trace' = h.trace
        /\ pc' = h.pc
        /\ result' = h.result
        /\ attempt' = IF h.pc = "loop" THEN attempt + 1 ELSE attempt
    /\ UNCHANGED <<client, calls, op, max_retries, hotmart, tally, aux>>

\* the for loop ends without return or raise: the statement after the loop
TMBExhausted ==
    /\ client = "TMB"
    /\ pc = "loop"
    /\ ~TMBInRange(attempt, max_retries)
    /\ pc' = "raised"
    /\ result' = Raised("TMBAPIError", "exhausted")
    /\ UNCHANGED <<client, now, calls, network, op, attempt, max_retries, trace, hotmart, tally, aux>>

----------------------------------------------------------------------------
(* Hotmart *)

\* Answers of the auth endpoint.  body is the expires_in member of the JSON
\* body of a 2xx answer: absent, or a number of seconds.
AuthBodies == {Missing, Num(30)}

\* the same, with an expires_in member that is not a number (null, "3600")
AnyAuthBodies == AuthBodies \cup {Bad}

AuthResponse(s, h, b) == [kind |-> "response", status |-> s, headers |-> h, body |-> b]

AuthOutcomes ==
    {AuthResponse(200, h, b) : h \in HeaderSets, b \in AuthBodies}
      \cup {AuthResponse(404, h, Missing) : h \in HeaderSets}
      \cup {Timeout, ConnectionError}

\* _update_rate_limit: the three assignments run in order inside one try;
\* int() of a non-numeric header raises ValueError, which ends the method
\* with the assignments made so far
HotmartUpdateRateLimitMut(h, hd) ==
    IF "bad" \in {hd.limit.tag, hd.remaining.tag, hd.reset.tag} THEN h
    ELSE [h EXCEPT
            !.rate_limit = IF hd.limit.tag = "missing" THEN @ ELSE hd.limit.val,
            !.rate_remaining = IF hd.remaining.tag = "missing" THEN @ ELSE hd.remaining.val,
            !.rate_reset = IF hd.reset.tag = "missing" THEN @ ELSE hd.reset.val]
HotmartUpdateRateLimit(h, hd) ==
    IF hd.limit.tag = "bad" THEN h
    ELSE LET h1 == [h EXCEPT !.rate_limit =
                        IF hd.limit.tag = "missing" THEN 500 ELSE hd.limit.val] IN
         IF hd.remaining.tag = "bad" THEN h1
         ELSE LET h2 == [h1 EXCEPT !.rate_remaining =
                        IF hd.remaining.tag = "missing" THEN 500 ELSE hd.remaining.val] IN
              [h2 EXCEPT !.rate_reset =
                  IF hd.reset.tag = "int" /\ hd.reset.val >= 0 THEN hd.reset.val ELSE 60]

\* data.get('expires_in', 3600)
ExpiresIn(body) == IF body.tag = "int" THEN body.val ELSE 3600

\* timedelta(seconds=expires_in) raises TypeError when expires_in is not a
\* number; self.access_token is assigned by then
TimedeltaRaises(body) == body.tag = "bad"

\* what authenticate raises when it fails on the answer o: only a
\* RequestException is wrapped into HotmartAPIError
AuthError(o) ==
    IF o.kind = "response" /\ ~RaisesForStatus(o.status) /\ TimedeltaRaises(o.body)
    THEN "TypeError"
    ELSE "HotmartAPIError"

\* authenticate: the auth call, made at time t, is answered by o.
\* ok = FALSE stands for an exception, AuthError(o).
HotmartAuthenticateMut(h, o, t) ==
    IF o.kind # "response" THEN [state |-> h, ok |-> FALSE]
    ELSE LET h1 == [h EXCEPT !.access_token = "token",
                             !.token_expiry = t + ExpiresIn(o.body)] IN
         IF RaisesForStatus(o.status) THEN [state |-> h1, ok |-> FALSE]
         ELSE [state |-> HotmartUpdateRateLimit(h1, o.headers), ok |-> TRUE]
HotmartAuthenticate(h, o, t) ==
    IF o.kind # "response" THEN [state |-> h, ok |-> FALSE]
    ELSE LET h1 == HotmartUpdateRateLimit(h, o.headers) IN
         IF RaisesForStatus(o.status) THEN [state |-> h1, ok |-> FALSE]
         ELSE IF TimedeltaRaises(o.body)
              THEN [state |-> [h1 EXCEPT !.access_token = "token"], ok |-> FALSE]
         ELSE [state |-> [h1 EXCEPT !.access_token = "token",
                                    !.token_expiry = t + ExpiresIn(o.body)],
               ok |-> TRUE]

\* condition of refresh_token
HotmartRefreshCondition(h, t) == h.token_expiry # None /\ t >= h.token_expiry

\* condition of _ensure_authenticated
HotmartNeedsAuthMut(h, t) ==
    h.access_token = NoToken \/ (h.token_expiry # None /\ t > h.token_expiry)
HotmartNeedsAuth(h, t) ==
    h.access_token = NoToken \/ (h.token_expiry # None /\ t >= h.token_expiry)

\* the rate-limit wait before the loop of make_request: seconds slept
HotmartAdmissionWait(h, t) ==
    IF h.rate_remaining <= 0 /\ h.rate_reset # None /\ h.rate_reset # 0
    THEN (IF h.rate_reset - t > 0 THEN h.rate_reset - t ELSE 0)
    ELSE 0

\* wait_time = self.rate_reset or 60
HotmartWait429(h) == IF h.rate_reset = None \/ h.rate_reset = 0 THEN 60 ELSE h.rate_reset

\* time.sleep(2 ** attempt)
HotmartBackoffMut(a) == 2 * a
HotmartBackoff(a) == 2 ^ a

\* if attempt < max_retries - 1, on a 429
HotmartCanRetry429(a, mr) == a < mr - 1

\* if attempt == max_retries - 1, in the except clauses
HotmartLastAttempt(a, mr) == a = mr - 1

\* for attempt in range(max_retries): is attempt a inside the range
HotmartInRange(a, mr) == a < mr

\* observation: has the expiry of the stored token passed at time t
TokenExpiredAt(h, t) == h.token_expiry # None /\ t >= h.token_expiry

\* observation: the token as the Session/Token data model classifies it at
\* time t: "absent", expired ("past", or "boundary" when t is exactly the
\* expiry), or "valid"
TokenStatus(h, t) ==
    IF h.access_token = NoToken THEN "absent"
    ELSE IF t > h.token_expiry THEN "past"
    ELSE IF t = h.token_expiry THEN "boundary"
    ELSE "valid"

\* the code of make_request before the for loop
HotmartMakeRequest(mr, o) ==
    /\ client = "Hotmart"
    /\ pc # "loop"
    /\ calls < MaxCalls
    /\ calls' = calls + 1
    /\ op' = "make_request"
    /\ max_retries' = mr
    /\ attempt' = 0
    /\ LET check == <<CheckEv("ensure_authenticated", TokenStatus(hotmart, now))>>
           a == HotmartAuthenticate(hotmart, o, now)
       IN
       /\ HotmartNeedsAuth(hotmart, now) => network < MaxNetwork
       /\ network' = IF HotmartNeedsAuth(hotmart, now) THEN network + 1 ELSE network
       /\ IF HotmartNeedsAuth(hotmart, now) /\ ~a.ok THEN
               /\ hotmart' = a.state
               /\ trace' = Append(check, AuthEv(o, FALSE))
               /\ pc' = "raised"
               /\ result' = Raised(AuthError(o), "auth")
               /\ now' = now
          ELSE
               LET h1 == IF HotmartNeedsAuth(hotmart, now) THEN a.state ELSE hotmart
                   t1 == IF HotmartNeedsAuth(hotmart, now)
                         THEN Append(check, AuthEv(o, TRUE)) ELSE check
                   w  == HotmartAdmissionWait(h1, now)
                   t2 == Append(t1, CheckEv("admission", "rate_limit"))
               IN
               /\ CanSleep(w)
               /\ hotmart' = h1
               /\ trace' = IF w > 0 THEN Append(t2, SleepEv("admission", w)) ELSE t2
               /\ now' = now + w
               /\ pc' = "loop"
               /\ result' = NoResult
    /\ UNCHANGED <<client, tally, aux>>

\* one iteration of the for loop of make_request
HotmartAttempt(o) ==
    /\ client = "Hotmart"
    /\ pc = "loop"
    /\ HotmartInRange(attempt, max_retries)
    /\ network < MaxNetwork
    /\ network' = network + 1
    /\ LET sent == Append(trace, RequestEv(attempt, o, TokenExpiredAt(hotmart, now)))
           h1 == IF o.kind = "response"
                 THEN HotmartUpdateRateLimit(hotmart, o.headers) ELSE hotmart
       IN
       /\ hotmart' = h1
       /\ IF o.kind = "response" /\ o.status = 429 THEN
              IF HotmartCanRetry429(attempt, max_retries) THEN
                  /\ CanSleep(HotmartWait429(h1))
                  /\ now' = now + HotmartWait429(h1)
                  /\ trace' = Append(sent, SleepEv("rate429", HotmartWait429(h1)))
                  /\ attempt' = attempt + 1
                  /\ UNCHANGED <<pc, result>>
              ELSE
                  /\ trace' = sent
                  /\ pc' = "raised"
                  /\ result' = Raised("HotmartAPIError", "rate_limit")
                  /\ UNCHANGED <<now, attempt>>
          ELSE IF o.kind = "response" /\ ~RaisesForStatus(o.status) THEN
              /\ trace' = sent
              /\ pc' = "returned"
              /\ result' = Returned(o.status)
              /\ UNCHANGED <<now, attempt>>
          ELSE IF HotmartLastAttempt(attempt, max_retries) THEN
              /\ trace' = sent
              /\ pc' = "raised"
              /\ result' = Raised("HotmartAPIError",
                                  IF o.kind = "timeout" THEN "timeout" ELSE "request")
              /\ UNCHANGED <<now, attempt>>
          ELSE
              /\ CanSleep(HotmartBackoff(attempt))
              /\ now' = now + HotmartBackoff(attempt)
              /\ trace' = Append(sent, SleepEv("backoff", HotmartBackoff(attempt)))
              /\ attempt' = attempt + 1
              /\ UNCHANGED <<pc, result>>
    /\ UNCHANGED <<client, calls, op, max_retries, tally, aux>>

\* the statement after the for loop
HotmartExhausted ==
    /\ client = "Hotmart"
    /\ pc = "loop"
    /\ ~HotmartInRange(attempt, max_retries)
    /\ pc' = "raised"
    /\ result' = Raised("HotmartAPIError", "exhausted")
    /\ UNCHANGED <<client, now, calls, network, op, attempt, max_retries, trace, hotmart, tally, aux>>

\* refresh_token()
HotmartRefreshToken(o) ==
    /\ client = "Hotmart"
    /\ pc # "loop"
    /\ calls < MaxCalls
    /\ calls' = calls + 1
    /\ op' = "refresh_token"
    /\ LET check == <<CheckEv("refresh_token", TokenStatus(hotmart, now))>>
           a == HotmartAuthenticate(hotmart, o, now)
       IN
       /\ HotmartRefreshCondition(hotmart, now) => network < MaxNetwork
       /\ network' = IF HotmartRefreshCondition(hotmart, now) THEN network + 1 ELSE network
       /\ IF HotmartRefreshCondition(hotmart, now) THEN
               /\ hotmart' = a.state
               /\ trace' = Append(check, AuthEv(o, a.ok))
               /\ pc' = IF a.ok THEN "returned" ELSE "raised"
               /\ result' = IF a.ok THEN Returned(0) ELSE Raised(AuthError(o), "auth")
          ELSE
               /\ hotmart' = hotmart
               /\ trace' = check
               /\ pc' = "returned"
               /\ result' = Returned(0)
    /\ UNCHANGED <<client, now, attempt, max_retries, tally, aux>>

\* authenticate() called directly
HotmartAuthenticateCall(o) ==
    /\ client = "Hotmart"
    /\ pc # "loop"
    /\ calls < MaxCalls
    /\ calls' = calls + 1
    /\ op' = "authenticate"
    /\ network < MaxNetwork
    /\ network' = network + 1
    /\ LET a == HotmartAuthenticate(hotmart, o, now) IN
        /\ hotmart' = a.state
        /\ trace' = <<AuthEv(o, a.ok)>>
        /\ pc' = IF a.ok THEN "returned" ELSE "raised"
        /\ result' = IF a.ok THEN Returned(0) ELSE Raised(AuthError(o), "auth")
    /\ UNCHANGED <<client, now, attempt, max_retries, tally, aux>>

----------------------------------------------------------------------------
(* Tally *)

RATE_LIMIT == 100

\* self.request_times.append(now), the last statement of _check_rate_limit
TallyRecordMut(history, t) == history
TallyRecord(history, t) == Append(history, t)

\* if len(self.request_times) >= self.RATE_LIMIT
TallyLimitReachedMut(pruned) == Len(pruned) > RATE_LIMIT
TallyLimitReached(pruned) == Len(pruned) >= RATE_LIMIT

\* _check_rate_limit at time t: the tracked history after the call and the
\* seconds slept inside it
TallyCheckRateLimitMut(request_times, t) ==
    LET one_minute_ago == t - 60
        pruned == SelectSeq(request_times, LAMBDA x : x > one_minute_ago)
    IN
    IF Len(pruned) >= RATE_LIMIT THEN
        [request_times |-> TallyRecord(<<>>, t), slept |-> 60 - (t - pruned[1]) + 2]
    ELSE [request_times |-> TallyRecord(pruned, t), slept |-> 0]
TallyCheckRateLimit(request_times, t) ==
    LET one_minute_ago == t - 60
        pruned == SelectSeq(request_times, LAMBDA x : x > one_minute_ago)
    IN
    IF TallyLimitReached(pruned) THEN
        LET wait_time == 60 - (t - pruned[1]) + 1 IN
        IF wait_time > 0
        THEN [request_times |-> TallyRecord(<<>>, t), slept |-> wait_time]
        ELSE [request_times |-> TallyRecord(pruned, t), slept |-> 0]
    ELSE [request_times |-> TallyRecord(pruned, t), slept |-> 0]

\* _update_rate_limit: int() / float() of a non-numeric header raises
\* ValueError, which ends the method with the assignments made so far
TallyUpdateRateLimit(tl, hd) ==
    IF hd.remaining.tag = "bad" THEN tl
    ELSE LET t1 == IF hd.remaining.tag = "int"
                   THEN [tl EXCEPT !.rate_remaining = hd.remaining.val] ELSE tl IN
         IF hd.reset.tag = "int"
         THEN [t1 EXCEPT !.rate_reset_time = hd.reset.val] ELSE t1

\* time.sleep(2 ** attempt)
TallyBackoffMut(a) == 2 ^ (a + 1)
TallyBackoff(a) == 2 ^ a

\* if attempt < max_retries - 1, on a 429
TallyCanRetry429Mut(a, mr) == a < mr
TallyCanRetry429(a, mr) == a < mr - 1

\* if attempt == max_retries - 1, in the except clauses
TallyLastAttempt(a, mr) == a = mr - 1

\* for attempt in range(max_retries): is attempt a inside the range
TallyInRange(a, mr) == a < mr

\* the code of make_request before the for loop
TallyMakeRequest(mr) ==
    /\ client = "Tally"
    /\ pc # "loop"
    /\ calls < MaxCalls
    /\ calls' = calls + 1
    /\ op' = "make_request"
    /\ max_retries' = mr
    /\ attempt' = 0
    /\ trace' = <<>>
    /\ result' = NoResult
    /\ pc' = "loop"
    /\ UNCHANGED <<client, now, network, hotmart, tally, aux>>

\* one iteration of the for loop of make_request
TallyAttempt(o) ==
    /\ client = "Tally"
    /\ pc = "loop"
    /\ TallyInRange(attempt, max_retries)
    /\ network < MaxNetwork
    /\ network' = network + 1
    /\ LET c == TallyCheckRateLimit(tally.request_times, now)
           checked == Append(trace, CheckEv("check_rate_limit", "rate_limit"))
           waited == IF c.slept > 0
                     THEN Append(checked, SleepEv("limiter", c.slept)) ELSE checked
           sent == Append(waited, RequestEv(attempt, o, FALSE))
           t1 == [tally EXCEPT !.request_times = c.request_times]
           t2 == IF o.kind = "response" THEN TallyUpdateRateLimit(t1, o.headers) ELSE t1
           sleep == IF o.kind = "response" /\ o.status = 429
                    THEN (IF TallyCanRetry429(attempt, max_retries) THEN 60 ELSE 0)
                    ELSE IF o.kind = "response" /\ ~RaisesForStatus(o.status) THEN 0
                    ELSE IF TallyLastAttempt(attempt, max_retries) THEN 0
                    ELSE TallyBackoff(attempt)
       IN
       /\ CanSleep(c.slept + sleep)
       /\ now' = now + c.slept + sleep
       /\ tally' = t2
       /\ IF o.kind = "response" /\ o.status = 429 THEN
              IF TallyCanRetry429(attempt, max_retries) THEN
                  /\ trace' = Append(sent, SleepEv("rate429", 60))
                  /\ attempt' = attempt + 1
                  /\ UNCHANGED <<pc, result>>
              ELSE
                  /\ trace' = sent
                  /\ pc' = "raised"
                  /\ result' = Raised("TallyAPIError", "rate_limit")
                  /\ UNCHANGED attempt
          ELSE IF o.kind = "response" /\ ~RaisesForStatus(o.status) THEN
              /\ trace' = sent
              /\ pc' = "returned"
              /\ result' = Returned(o.status)
              /\ UNCHANGED attempt
          ELSE IF TallyLastAttempt(attempt, max_retries) THEN
              /\ trace' = sent
              /\ pc' = "raised"
              /\ result' = Raised("TallyAPIError",
                                  IF o.kind = "timeout" THEN "timeout" ELSE "request")
              /\ UNCHANGED attempt
          ELSE
              /\ trace' = Append(sent, SleepEv("backoff", TallyBackoff(attempt)))
              /\ attempt' = attempt + 1
              /\ UNCHANGED <<pc, result>>
    /\ UNCHANGED <<client, calls, op, max_retries, hotmart, aux>>

\* the statement after the for loop
TallyExhausted ==
    /\ client = "Tally"
    /\ pc = "loop"
    /\ ~TallyInRange(attempt, max_retries)
    /\ pc' = "raised"
    /\ result' = Raised("TallyAPIError", "exhausted")
    /\ UNCHANGED <<client, now, calls, network, op, attempt, max_retries, trace, hotmart, tally, aux>>

\* request_times after n < RATE_LIMIT back-to-back attempts made at time t
\* by a new instance: each _check_rate_limit appended t, nothing was pruned
Burst(n, t) == [i \in 1..n |-> t]

\* attempts the observed Tally instance has already made, back to back, when
\* the observation starts: none, or one short of the limit
PriorAttempts == {0, RATE_LIMIT - 1}

----------------------------------------------------------------------------
(* Time passing between operations *)

TickSteps == {30}

Tick(d) ==
    /\ pc # "loop"
    /\ calls < MaxCalls
    /\ CanSleep(d)
    /\ now' = now + d
    /\ UNCHANGED <<client, calls, network, op, pc, attempt, max_retries, trace, result, hotmart, tally, aux>>

----------------------------------------------------------------------------

\* the answer of the auth endpoint is an input of an operation only when the
\* operation calls the endpoint
AuthInputs(called) == IF called THEN AuthOutcomes ELSE {Timeout}

HotmartInit ==
    [access_token |-> NoToken, token_expiry |-> None,
     rate_limit |-> 500, rate_remaining |-> 500, rate_reset |-> None]

TallyInit ==
    [rate_remaining |-> RATE_LIMIT, rate_reset_time |-> None, request_times |-> <<>>]

Init ==
    /\ client \in Clients
    /\ now = StartTime
    /\ calls = 0
    /\ network = 0
    /\ op = "none"
    /\ pc = "idle"
    /\ attempt = 0
    /\ max_retries = 0
    /\ trace = <<>>
    /\ result = NoResult
    /\ hotmart = HotmartInit
    /\ \E n \in (IF client = "Tally" THEN PriorAttempts ELSE {0}) :
            tally = [TallyInit EXCEPT !.request_times = Burst(n, StartTime)]
    /\ issued = <<>>
    /\ pag = NotCalled
    /\ batch = NotCalled
    /\ LibIdle

Next ==
    \/ \E mr \in 0..MaxRetriesArg : TMBMakeRequest(mr)
    \/ \E o \in BareOutcomes : TMBAttempt(o)
    \/ TMBExhausted
    \/ \E mr \in 0..MaxRetriesArg, o \in AuthInputs(HotmartNeedsAuth(hotmart, now)) :
            HotmartMakeRequest(mr, o)
    \/ \E o \in Outcomes : HotmartAttempt(o)
    \/ HotmartExhausted
    \/ \E o \in AuthInputs(HotmartRefreshCondition(hotmart, now)) : HotmartRefreshToken(o)
    \/ \E o \in AuthOutcomes : HotmartAuthenticateCall(o)
    \/ \E mr \in 0..MaxRetriesArg : TallyMakeRequest(mr)
    \/ \E o \in Outcomes : TallyAttempt(o)
    \/ TallyExhausted
    \/ \E d \in TickSteps : Tick(d)

Spec == Init /\ [][Next]_vars

----------------------------------------------------------------------------
(* Observations on the trace of the call in progress *)

EventsOf(tr, e) == SelectSeq(tr, LAMBDA x : x.ev = e)

Requests == EventsOf(trace, "request")

NumRequests == Len(Requests)

\* indices of the trace holding a data request
RequestIdx == {i \in 1..Len(trace) : trace[i].ev = "request"}

\* the sleeps of the trace strictly between positions i and j
SleepsBetween(i, j) ==
    SelectSeq(SubSeq(trace, i + 1, j - 1), LAMBDA x : x.ev = "sleep")

\* the same, leaving out the waits of Tally's _check_rate_limit
BackoffsBetween(i, j) ==
    SelectSeq(SubSeq(trace, i + 1, j - 1),
              LAMBDA x : x.ev = "sleep" /\ x.kind # "limiter")

InMakeRequest == op = "make_request"

Finished == pc \in {"returned", "raised"}

\* the error class of the client
ClientError ==
    CASE client = "Hotmart" -> "HotmartAPIError"
      [] client = "Tally"   -> "TallyAPIError"
      [] client = "TMB"     -> "TMBAPIError"

ErrorStatus(e) == e.kind = "response" /\ e.status >= 400 /\ e.status < 600 /\ e.status # 429

Transient(e) == e.kind \in {"timeout", "connection"}

----------------------------------------------------------------------------
(* C1: one make_request of Hotmart, Tally or TMB issues at most max_retries
   data requests, whatever the outcomes of the attempts (the Hotmart
   authentication call is not a data request), and once the max_retries-th
   request has been answered the call has returned or raised. *)
C1_AtMostMaxRetries ==
    InMakeRequest =>
        /\ NumRequests <= max_retries
        /\ (NumRequests = max_retries /\ max_retries > 0) => Finished
        /\ Finished => result.kind \in {"return", "raise"}

C1_Witness ==
    /\ InMakeRequest /\ Finished
    /\ max_retries = 3
    /\ NumRequests = max_retries

(* C2: when every attempt is answered 429 (max_retries >= 1) the call fails
   with the client's rate-limit error after exactly max_retries requests,
   and nothing, in particular no sleep, follows the last 429. *)
C2_All429 ==
    (/\ InMakeRequest /\ max_retries >= 1
     /\ NumRequests >= 1
     /\ \A i \in RequestIdx : trace[i].kind = "response" /\ trace[i].status = 429)
    =>
        /\ ~Finished => NumRequests < max_retries
        /\ Finished =>
            /\ result = Raised(ClientError, "rate_limit")
            /\ NumRequests = max_retries
            /\ trace[Len(trace)].ev = "request"

C2_Witness ==
    /\ InMakeRequest /\ Finished
    /\ max_retries = 3 /\ NumRequests = 3
    /\ \A i \in RequestIdx : trace[i].status = 429
    /\ result.msg = "rate_limit"

(* C3 as stated: first attempt answered 500, second 200 (max_retries >= 2):
   the call returns the 200 response after exactly 2 requests and the only
   sleep between the two requests is one sleep of 2^0 = 1 second. *)
C3_Pre ==
    /\ InMakeRequest /\ max_retries >= 2
    /\ NumRequests >= 2
    /\ Requests[1].kind = "response" /\ Requests[1].status = 500
    /\ Requests[2].kind = "response" /\ Requests[2].status = 200

FirstIdx == CHOOSE i \in RequestIdx : \A j \in RequestIdx : i <= j
SecondIdx == CHOOSE i \in RequestIdx \ {FirstIdx} : \A j \in RequestIdx \ {FirstIdx} : i <= j

C3_Original ==
    C3_Pre =>
        /\ pc = "returned" /\ result = Returned(200)
        /\ NumRequests = 2
        /\ SleepsBetween(FirstIdx, SecondIdx) = <<SleepEv("backoff", 1)>>

(* C3 amended: ... exactly one backoff sleep of 2^0 = 1 second happens
   between the two requests; the only other sleep that can happen between
   them is the wait of Tally's _check_rate_limit made for the second
   attempt. *)
C3_RetryAfter500 ==
    C3_Pre =>
        /\ pc = "returned" /\ result = Returned(200)
        /\ NumRequests = 2
        /\ BackoffsBetween(FirstIdx, SecondIdx) = <<SleepEv("backoff", 1)>>
        /\ SleepsBetween(FirstIdx, SecondIdx)[1] = SleepEv("backoff", 1)
        /\ (client # "Tally" => Len(SleepsBetween(FirstIdx, SecondIdx)) = 1)

C3_Witness ==
    /\ C3_Pre /\ pc = "returned"
    /\ client = "Tally"
    /\ Len(SleepsBetween(FirstIdx, SecondIdx)) = 2

(* C4 as stated: an attempt answered by a 4xx/5xx status other than 429 ends
   the call at once: make_request raises after that attempt, with no backoff
   sleep and no further attempt, whatever max_retries is. *)
C4_Original ==
    InMakeRequest =>
        \A i \in RequestIdx :
            ErrorStatus(trace[i]) => (i = Len(trace) /\ pc = "raised")

(* C4 amended: an attempt answered by a 4xx/5xx status other than 429 is
   handled like a transport failure: when it is the last attempt
   (attempt = max_retries - 1) make_request raises the client's error right
   after it, with no sleep; otherwise it sleeps 2^attempt seconds and goes
   on to a further attempt. *)
C4_ErrorStatusRetried ==
    InMakeRequest =>
        \A i \in RequestIdx :
            ErrorStatus(trace[i]) =>
                IF trace[i].n = max_retries - 1
                THEN /\ i = Len(trace)
                     /\ pc = "raised"
                     /\ result = Raised(ClientError, "request")
                ELSE /\ i < Len(trace)
                     /\ trace[i + 1] = SleepEv("backoff", 2 ^ trace[i].n)
                     /\ IF \E j \in RequestIdx : j > i
                        THEN \E j \in RequestIdx : j > i /\ trace[j].n = trace[i].n + 1
                        ELSE pc = "loop" /\ attempt = trace[i].n + 1
                                         /\ attempt < max_retries

C4_Witness ==
    /\ InMakeRequest /\ pc = "returned"
    /\ NumRequests = 3
    /\ Requests[1].status = 404 /\ Requests[2].status = 500
    /\ Requests[3].status = 200

(* C5 as stated: when every attempt times out or fails at transport level,
   the sleeps between the attempts are exactly 2^0, 2^1, ...,
   2^(max_retries-2) seconds in this order, no sleep follows the last
   attempt, and the call fails with the client's error. *)
C5_Pre ==
    /\ InMakeRequest
    /\ NumRequests >= 1
    /\ \A i \in RequestIdx : Transient(trace[i])

\* the backoff sleeps that k failed attempts call for, the last of the k
\* being followed by a sleep exactly when the call goes on
ExpectedBackoffs(k) == [j \in 1..k |-> SleepEv("backoff", 2 ^ (j - 1))]

C5_Post(sleeps) ==
    /\ ~Finished => sleeps = ExpectedBackoffs(NumRequests)
    /\ Finished =>
        /\ NumRequests = max_retries
        /\ sleeps = ExpectedBackoffs(max_retries - 1)
        /\ trace[Len(trace)].ev = "request"
        /\ pc = "raised"
        /\ result.error = ClientError
        /\ result.msg = (IF trace[Len(trace)].kind = "timeout" THEN "timeout" ELSE "request")

C5_Original ==
    C5_Pre => C5_Post(SleepsBetween(FirstIdx, Len(trace) + 1))

(* C5 amended: ... the backoff sleeps between the attempts are exactly 2^0,
   2^1, ..., 2^(max_retries-2) seconds in this order, no sleep follows the
   last attempt, and the call fails with the client's error; in Tally the
   _check_rate_limit made for an attempt may add its own wait before that
   attempt. *)
C5_BackoffSequence ==
    C5_Pre =>
        /\ C5_Post(BackoffsBetween(FirstIdx, Len(trace) + 1))
        /\ client # "Tally" => C5_Post(SleepsBetween(FirstIdx, Len(trace) + 1))

C5_Witness ==
    /\ C5_Pre /\ Finished
    /\ max_retries = 3
    /\ client = "Tally"
    /\ Len(SleepsBetween(FirstIdx, Len(trace) + 1)) = 3

----------------------------------------------------------------------------
(* Observations on the Hotmart token manager *)

Auths(tr) == EventsOf(tr, "authenticate")

\* an answer of the auth endpoint that is a failure: no response at all, or
\* a 4xx/5xx status
AuthFailure(e) == e.kind # "response" \/ (e.status >= 400 /\ e.status < 600)

AbsentOrExpired(st) == st \in {"absent", "past", "boundary"}

\* a step in which authenticate ran: a public operation began and its trace
\* holds a call of the auth endpoint
AuthenticateStep ==
    /\ client = "Hotmart"
    /\ calls' = calls + 1
    /\ Len(Auths(trace')) = 1

TokenUnchanged ==
    /\ hotmart'.access_token = hotmart.access_token
    /\ hotmart'.token_expiry = hotmart.token_expiry

RateUnchanged ==
    /\ hotmart'.rate_limit = hotmart.rate_limit
    /\ hotmart'.rate_remaining = hotmart.rate_remaining
    /\ hotmart'.rate_reset = hotmart.rate_reset

(* C6: in Hotmart.make_request every data request, retries included, is
   preceded by an authentication check and a rate-limit admission check made
   for that attempt (after the previous request), and no retry is sent with
   a token whose expiry has passed when the retry is issued. *)
C6_ChecksBeforeEveryAttempt ==
    (client = "Hotmart" /\ InMakeRequest) =>
        \A i \in RequestIdx :
            LET before == {j \in RequestIdx : j < i}
                prev == IF before = {} THEN 0
                        ELSE CHOOSE j \in before : \A k \in before : k <= j
            IN
            /\ \E j \in (prev + 1)..(i - 1) : trace[j].ev = "ensure_authenticated"
            /\ \E j \in (prev + 1)..(i - 1) : trace[j].ev = "admission"
            /\ trace[i].n > 0 => ~trace[i].flag

(* C7: a Hotmart make_request that finds the token absent or expired
   (now >= token_expiry, now = token_expiry included) calls authenticate
   exactly once, and that call is over before the first data request; one
   that finds a token with now < token_expiry never calls authenticate. *)
C7_AuthenticateOnceWhenNeeded ==
    (client = "Hotmart" /\ InMakeRequest) =>
        /\ trace[1].ev = "ensure_authenticated"
        /\ AbsentOrExpired(trace[1].kind) =>
            /\ Len(Auths(trace)) = 1
            /\ trace[2].ev = "authenticate"
            /\ \A i \in RequestIdx : i > 2
        /\ trace[1].kind = "valid" => Len(Auths(trace)) = 0

C7_Witness ==
    /\ client = "Hotmart" /\ InMakeRequest
    /\ trace[1].kind = "boundary"
    /\ trace[2].ev = "authenticate" /\ trace[2].flag
    /\ NumRequests >= 1

(* C8: when the auth endpoint fails (transport failure or 4xx/5xx),
   authenticate raises HotmartAPIError and access_token and token_expiry
   keep their values; the enclosing make_request sends no data request and
   calls the auth endpoint only once; the make_request that follows
   authenticates again. *)
C8_StatePart ==
    client = "Hotmart" =>
        \A i \in 1..Len(trace) :
            (trace[i].ev = "authenticate" /\ AuthFailure(trace[i])) =>
                /\ ~trace[i].flag
                /\ pc = "raised"
                /\ result = Raised("HotmartAPIError", "auth")
                /\ NumRequests = 0
                /\ Len(Auths(trace)) = 1

C8_StepPart ==
    /\ (AuthenticateStep /\ AuthFailure(Auths(trace')[1])) => TokenUnchanged
    /\ (/\ client = "Hotmart"
        /\ op = "make_request" /\ pc = "raised" /\ result.msg = "auth"
        /\ op' = "make_request" /\ calls' = calls + 1)
       => Len(Auths(trace')) = 1

C8_AuthFailure == [] C8_StatePart /\ [][C8_StepPart]_vars

\* a re-authentication failed inside make_request: the old token is kept
C8_Witness ==
    /\ client = "Hotmart" /\ InMakeRequest
    /\ pc = "raised" /\ result.msg = "auth"
    /\ hotmart.access_token = "token"
    /\ now >= hotmart.token_expiry

(* C9 as stated: authenticate, successful or not, leaves rate_limit,
   rate_remaining and rate_reset as they were. *)
C9_Original == [][AuthenticateStep => RateUnchanged]_vars

\* the rate fields a response whose headers hd are all well formed or
\* absent leaves behind
RateFrom(hd) ==
    [rate_limit     |-> IF hd.limit.tag = "int" THEN hd.limit.val ELSE 500,
     rate_remaining |-> IF hd.remaining.tag = "int" THEN hd.remaining.val ELSE 500,
     rate_reset     |-> IF hd.reset.tag = "int" THEN hd.reset.val ELSE 60]

\* the step is a public operation in which the auth endpoint answered o
AuthenticateRan(o) ==
    \/ HotmartAuthenticateCall(o)
    \/ HotmartRefreshToken(o)
    \/ HotmartMakeRequest(max_retries', o)

(* C9 amended: authenticate leaves rate_limit, rate_remaining and
   rate_reset as they were only when the auth request fails at transport
   level; when the auth endpoint answers, with any status, the three fields
   are overwritten from the headers of that answer (500, 500 and 60 for
   absent headers).  access_token and token_expiry change only when it
   succeeds. *)
C9_StepPart ==
    AuthenticateStep =>
        \A o \in AuthOutcomes :
            AuthenticateRan(o) =>
                /\ o.kind # "response" => hotmart' = hotmart
                /\ (o.kind = "response" /\ "bad" \notin
                        {o.headers.limit.tag, o.headers.remaining.tag, o.headers.reset.tag})
                   => /\ hotmart'.rate_limit = RateFrom(o.headers).rate_limit
                      /\ hotmart'.rate_remaining = RateFrom(o.headers).rate_remaining
                      /\ hotmart'.rate_reset = RateFrom(o.headers).rate_reset
                /\ AuthFailure(o) => TokenUnchanged

C9_AuthenticateEffects == [][C9_StepPart]_vars

\* a failed authentication (404 without rate-limit headers) has reset the
\* rate fields of a client whose quota was known to be used up
C9_Witness ==
    /\ client = "Hotmart"
    /\ calls = 2
    /\ Len(Auths(trace)) = 1 /\ ~Auths(trace)[1].flag
    /\ Auths(trace)[1].kind = "response"
    /\ hotmart.rate_remaining = 500
    /\ hotmart.access_token = "token"

(* C10: refresh_token calls authenticate exactly when the token is absent
   or expired (now >= token_expiry), the states in which
   _ensure_authenticated authenticates; with a valid token it changes
   nothing. *)
C10_StatePart ==
    (client = "Hotmart" /\ op = "refresh_token") =>
        (AbsentOrExpired(trace[1].kind) <=> Len(Auths(trace)) = 1)

C10_StepPart ==
    (client = "Hotmart" /\ op' = "refresh_token" /\ calls' = calls + 1) =>
        /\ Len(Auths(trace')) = 1 <=> HotmartNeedsAuth(hotmart, now)
        /\ TokenStatus(hotmart, now) = "valid" => hotmart' = hotmart

C10_RefreshMatchesEnsure == [] C10_StatePart /\ [][C10_StepPart]_vars

----------------------------------------------------------------------------
(* Hotmart: admission and _update_rate_limit *)

\* the step is the code of Hotmart.make_request before the loop, and it
\* went on to the loop (authentication, when needed, succeeded)
HotmartAdmissionStep ==
    /\ client = "Hotmart"
    /\ op' = "make_request" /\ calls' = calls + 1
    /\ pc' = "loop"

(* C11: when the rate fields left by the last response say that the quota
   is used up (rate_remaining <= 0) and carry a reset value N > 0, the next
   make_request sleeps a positive duration before its first data request. *)
C11_AdmissionSleeps ==
    [][(/\ HotmartAdmissionStep
        /\ hotmart'.rate_remaining <= 0
        /\ hotmart'.rate_reset # None /\ hotmart'.rate_reset > 0)
       => /\ now' > now
          /\ trace'[Len(trace')] = SleepEv("admission", now' - now)]_vars

(* C12: _update_rate_limit, applied to the headers of a response, leaves
   each of rate_limit, rate_remaining and rate_reset as it was when the
   header it is read from is missing or not a number. *)
C12_KeepsPrevious ==
    [][\A o \in Outcomes :
          (HotmartAttempt(o) /\ o.kind = "response") =>
              /\ o.headers.limit.tag # "int" => hotmart'.rate_limit = hotmart.rate_limit
              /\ o.headers.remaining.tag # "int" =>
                     hotmart'.rate_remaining = hotmart.rate_remaining
              /\ o.headers.reset.tag # "int" => hotmart'.rate_reset = hotmart.rate_reset]_vars

----------------------------------------------------------------------------
(* Tally's limiter on its own: a long run of attempts of one instance.
   Each attempt is lines 167-176 of Tally.make_request, _check_rate_limit
   followed by requests.request; what make_request does with the answer
   only lets time pass, which LimiterTick covers. *)

IdleCore ==
    /\ now = StartTime
    /\ calls = 0
    /\ network = 0
    /\ op = "none"
    /\ pc = "idle"
    /\ attempt = 0
    /\ max_retries = 0
    /\ trace = <<>>
    /\ result = NoResult
    /\ hotmart = HotmartInit
    /\ tally = TallyInit

LimiterAttempt ==
    /\ Len(issued) < MaxAttempts
    /\ LET c == TallyCheckRateLimit(tally.request_times, now) IN
        /\ CanSleep(c.slept)
        /\ now' = now + c.slept
        /\ tally' = [tally EXCEPT !.request_times = c.request_times]
        /\ issued' = Append(issued, now + c.slept)
    /\ UNCHANGED <<client, calls, network, op, pc, attempt, max_retries, trace, result,
                   hotmart, pag, batch, lib>>

LimiterTickSteps == {59}

LimiterTick(d) ==
    /\ CanSleep(d)
    /\ now' = now + d
    /\ UNCHANGED <<client, calls, network, op, pc, attempt, max_retries, trace, result,
                   hotmart, tally, aux>>

LimiterInit ==
    /\ client = "Tally"
    /\ IdleCore
    /\ issued = <<>>
    /\ pag = NotCalled
    /\ batch = NotCalled
    /\ LibIdle

LimiterNext ==
    \/ LimiterAttempt
    \/ \E d \in LimiterTickSteps : LimiterTick(d)

LimiterSpec == LimiterInit /\ [][LimiterNext]_vars

\* number of requests sent in the 60 seconds that end with request i
InWindow(i) == Cardinality({j \in 1..i : issued[j] > issued[i] - 60})

(* C13: the requests one Tally instance sends in any window of 60 seconds
   are at most RATE_LIMIT. *)
C13_WindowWithinLimit ==
    \A i \in 1..Len(issued) : InWindow(i) <= RATE_LIMIT

\* the step is an attempt in which _check_rate_limit slept
LimiterBlocked == issued' # issued /\ now' > now

(* C14 as stated: a blocking _check_rate_limit sleeps d with 0 <= d < 61. *)
C14_Original ==
    [][LimiterBlocked => (now' - now >= 0 /\ now' - now < 61)]_vars

(* C14 amended: a blocking _check_rate_limit sleeps d with 1 < d <= 61,
   and the request is sent 61 seconds after the oldest request that was
   tracked inside the window. *)
C14_WaitBounded ==
    [][LimiterBlocked =>
          LET oldest == SelectSeq(tally.request_times, LAMBDA x : x > now - 60)[1] IN
          /\ now' - now > 1 /\ now' - now <= 61
          /\ now' = oldest + 61
          /\ Len(SelectSeq(tally.request_times, LAMBDA x : x > now - 60)) >= RATE_LIMIT]_vars

\* the 101st call after 100 calls made at the same instant slept 61 s
C14_Witness ==
    /\ Len(issued) = RATE_LIMIT + 1
    /\ \A i \in 1..RATE_LIMIT : issued[i] = StartTime
    /\ issued[RATE_LIMIT + 1] = StartTime + 61
    /\ now = StartTime + 61

----------------------------------------------------------------------------
(* Paginators.  One call of one paginator is observed.  pag holds the
   locals of the call: cursor is the page token / after cursor / page
   number the next request will carry, items the accumulated list, sent the
   cursors carried by the requests made so far, pages the answers received.
   A page fetch is one iteration of the while loop.  make_request is seen
   through its interface: it returns a response or raises the client's
   error. *)

NoCursor == None

\* the cursor a server hands out with its k-th page
Cursor(k) == 100 + k

\* the items of the k-th page, n of them, in the order of the page
Items(k, n) == [i \in 1..n |-> 10 * k + i]

\* What one page fetch can produce: make_request returned a response whose
\* JSON body is an object ("page") or a top-level list ("list") holding n
\* items, with or without a cursor to the next page; or response.json()
\* raised ("invalid"); or make_request raised the client's error ("error").
PageAnswer(kd, n, more) == [kind |-> kd, n |-> n, more |-> more]
ClientErrorAnswer == PageAnswer("error", 0, FALSE)
InvalidJson == PageAnswer("invalid", 0, FALSE)

PageAnswers ==
    {PageAnswer("page", n, m) : n \in 0..MaxItems, m \in BOOLEAN}
        \cup {ClientErrorAnswer, InvalidJson}

PagCall(fn, cursor, page_size, max_pages) ==
    [pc |-> "loop", fn |-> fn, cursor |-> cursor, items |-> <<>>,
     sent |-> <<>>, pages |-> <<>>, page_size |-> page_size, max_pages |-> max_pages]

\* the request of one loop iteration has been made and answered by r
Fetched(p, r) ==
    [p EXCEPT !.sent = Append(@, p.cursor), !.pages = Append(@, r)]

HotmartPaginators ==
    {"get_sales_history", "get_sales_participants", "get_sales_commissions", "get_students"}

\* page_token argument of the Hotmart paginators
PageTokenArgs == {NoCursor, Cursor(0)}

\* the code of a Hotmart paginator before its while loop
HotmartPaginatorCall(fn, page_token) ==
    /\ pag = NotCalled
    /\ pag' = PagCall(fn, page_token, None, None)
    /\ UNCHANGED <<core, issued, batch, lib>>

\* except HotmartAPIError: log, break; then return all_items
HotmartOnError(p) == [p EXCEPT !.pc = "returned"]

\* if not page_token: break
HotmartStops(page_token, items) == page_token = NoCursor

\* one iteration of the while loop of a Hotmart paginator
HotmartPaginatorPage(r) ==
    /\ pag.pc = "loop" /\ pag.fn \in HotmartPaginators
    /\ Len(pag.sent) < MaxPageRequests
    /\ LET p == Fetched(pag, r)
           k == Len(p.sent)
           items == Items(k, r.n)
           page_token == IF r.more THEN Cursor(k) ELSE NoCursor
       IN
       pag' = CASE r.kind = "error" -> HotmartOnError(p)
                [] r.kind = "invalid" -> [p EXCEPT !.pc = "raised"]
                [] OTHER ->
                    [p EXCEPT !.items = @ \o items,
                              !.cursor = page_token,
                              !.pc = IF HotmartStops(page_token, items)
                                     THEN "returned" ELSE "loop"]
    /\ UNCHANGED <<core, issued, batch, lib>>

\* Tally.get_form_submissions before its while loop: after = None
get_form_submissions_call ==
    /\ pag = NotCalled
    /\ pag' = PagCall("get_form_submissions", NoCursor, None, None)
    /\ UNCHANGED <<core, issued, batch, lib>>

\* except TallyAPIError: log; then return all_submissions
TallyOnError(p) == [p EXCEPT !.pc = "returned"]

\* if not after or not submissions: break
TallyStopsMut(after, submissions) == after = NoCursor
TallyStops(after, submissions) == after = NoCursor \/ submissions = <<>>

TallyPageAnswers ==
    PageAnswers \cup {PageAnswer("list", n, FALSE) : n \in 0..MaxItems}

\* one iteration of the while loop of get_form_submissions
get_form_submissions_page(r) ==
    /\ pag.pc = "loop" /\ pag.fn = "get_form_submissions"
    /\ Len(pag.sent) < MaxPageRequests
    /\ LET p == Fetched(pag, r)
           k == Len(p.sent)
           submissions == Items(k, r.n)
           after == IF r.kind = "page" /\ r.more THEN Cursor(k) ELSE NoCursor
       IN
       pag' = CASE r.kind = "error" -> TallyOnError(p)
                [] r.kind = "invalid" -> [p EXCEPT !.pc = "raised"]
                [] OTHER ->
                    [p EXCEPT !.items = @ \o submissions,
                              !.cursor = after,
                              !.pc = IF TallyStops(after, submissions)
                                     THEN "returned" ELSE "loop"]
    /\ UNCHANGED <<core, issued, batch, lib>>

\* page_number and page_size arguments of TMB.get_pedidos
PageNumberArgs == {1, 3}
PageSizeArgs == 1..MaxItems

\* TMB.get_pedidos before its while loop: current_page = page_number
get_pedidos_call(page_number, page_size) ==
    /\ pag = NotCalled
    /\ pag' = PagCall("get_pedidos", page_number, page_size, None)
    /\ UNCHANGED <<core, issued, batch, lib>>

\* except TMBAPIError: log, break; then return all_pedidos
TMBOnErrorMut(p) == [p EXCEPT !.pc = "returned", !.items = <<>>]
TMBOnError(p) == [p EXCEPT !.pc = "returned"]

TMBPageAnswers ==
    {PageAnswer(kd, n, FALSE) : kd \in {"page", "list"}, n \in 0..MaxItems}
        \cup {ClientErrorAnswer, InvalidJson}

\* if len(items) < page_size: break
TMBShortPageMut(items, page_size) == Len(items) <= page_size
TMBShortPage(items, page_size) == Len(items) < page_size

\* one iteration of the while loop of get_pedidos
get_pedidos_page(r) ==
    /\ pag.pc = "loop" /\ pag.fn = "get_pedidos"
    /\ Len(pag.sent) < MaxPageRequests
    /\ LET p == Fetched(pag, r)
           items == Items(Len(p.sent), r.n)
       IN
       pag' = CASE r.kind = "error" -> TMBOnError(p)
                [] r.kind = "invalid" -> [p EXCEPT !.pc = "raised"]
                [] OTHER ->
                    IF items = <<>> THEN [p EXCEPT !.pc = "returned"]
                    ELSE IF TMBShortPage(items, p.page_size)
                         THEN [p EXCEPT !.items = @ \o items, !.pc = "returned"]
                         ELSE [p EXCEPT !.items = @ \o items, !.cursor = @ + 1]
    /\ UNCHANGED <<core, issued, batch, lib>>

\* max_pages argument of api_utils.paginated_request
MaxPagesArgs == {None} \cup (0..(MaxPageRequests - 1))

\* paginated_request before its while loop: page = 1
paginated_request_call(max_pages) ==
    /\ pag = NotCalled
    /\ pag' = PagCall("paginated_request", 1, None, max_pages)
    /\ UNCHANGED <<core, issued, batch, lib>>

\* if max_pages and page > max_pages: break   (None and 0 are falsy)
PageCapReached(max_pages, page) ==
    max_pages # None /\ max_pages # 0 /\ page > max_pages

\* answers of get_json: a top-level list, an object with 'results', an
\* object with 'data', any other JSON value, or an exception
ApiPageAnswers ==
    {PageAnswer(kd, n, FALSE) : kd \in {"list", "results", "data"}, n \in 0..MaxItems}
        \cup {PageAnswer("other", 1, FALSE), ClientErrorAnswer}

\* the items of the k-th answer: the list itself, response['results'] or
\* response['data']; any other JSON value counts as one item, [response]
ApiResultsMut(r, k) ==
    IF r.kind \in {"list", "results"} THEN Items(k, r.n) ELSE Items(k, 1)
ApiResults(r, k) ==
    IF r.kind \in {"list", "results", "data"} THEN Items(k, r.n) ELSE Items(k, 1)

\* one iteration of the while loop of paginated_request
paginated_request_page(r) ==
    /\ pag.pc = "loop" /\ pag.fn = "paginated_request"
    /\ IF PageCapReached(pag.max_pages, pag.cursor)
       THEN pag' = [pag EXCEPT !.pc = "returned"]
       ELSE /\ Len(pag.sent) < MaxPageRequests
            /\ LET p == Fetched(pag, r)
                   results == ApiResults(r, Len(p.sent))
               IN
               pag' = IF r.kind = "error" THEN [p EXCEPT !.pc = "raised"]
                      ELSE IF results = <<>> THEN [p EXCEPT !.pc = "returned"]
                      ELSE [p EXCEPT !.items = @ \o results, !.cursor = @ + 1]
    /\ UNCHANGED <<core, issued, batch, lib>>

PagInit ==
    /\ client \in Clients
    /\ IdleCore
    /\ issued = <<>>
    /\ pag = NotCalled
    /\ batch = NotCalled
    /\ LibIdle

PagNext ==
    \/ \E fn \in HotmartPaginators, t \in PageTokenArgs :
            client = "Hotmart" /\ HotmartPaginatorCall(fn, t)
    \/ \E r \in PageAnswers : HotmartPaginatorPage(r)
    \/ client = "Tally" /\ get_form_submissions_call
    \/ \E r \in TallyPageAnswers : get_form_submissions_page(r)
    \/ \E n \in PageNumberArgs, s \in PageSizeArgs :
            client = "TMB" /\ get_pedidos_call(n, s)
    \/ \E r \in TMBPageAnswers : get_pedidos_page(r)
    \/ \E m \in MaxPagesArgs : paginated_request_call(m)
    \/ \E r \in ApiPageAnswers : paginated_request_page(r)

PagSpec == PagInit /\ [][PagNext]_vars

----------------------------------------------------------------------------
(* Observations on the paginator call *)

PagCalled == pag.pc # "idle"

\* the concatenation of the items of the first k answers, in page order
RECURSIVE ItemsOfPages(_, _)
ItemsOfPages(pages, k) ==
    IF k = 0 THEN <<>>
    ELSE ItemsOfPages(pages, k - 1) \o Items(k, pages[k].n)

\* the answer is a page of items (not an error)
IsPage(r) == r.kind \in {"page", "list"}

HasCursor(r) == r.kind = "page" /\ r.more

(* C15: a Hotmart paginator stops after the first page that has no
   next_page_token or an empty items list: that page is the last one
   requested and the call has returned the accumulated items. *)
C15_StopsOnLastPage ==
    (PagCalled /\ pag.fn \in HotmartPaginators) =>
        \A k \in 1..Len(pag.pages) :
            (IsPage(pag.pages[k]) /\ (~HasCursor(pag.pages[k]) \/ pag.pages[k].n = 0)) =>
                /\ Len(pag.sent) = k
                /\ pag.pc = "returned"
                /\ pag.items = ItemsOfPages(pag.pages, k)

\* every answer before the last is a non-empty page with a cursor, and the
\* last answer is a page
C16_Pre ==
    /\ PagCalled /\ pag.fn = "get_form_submissions"
    /\ \A k \in 1..Len(pag.pages) : IsPage(pag.pages[k])
    /\ \A k \in 1..(Len(pag.pages) - 1) : HasCursor(pag.pages[k]) /\ pag.pages[k].n > 0

\* the last answer received is a final page: empty data or no cursor
C16_FinalReceived ==
    /\ Len(pag.pages) >= 1
    /\ LET last == pag.pages[Len(pag.pages)] IN last.n = 0 \/ ~HasCursor(last)

(* C16: get_form_submissions, served non-empty pages with a cursor and then
   a final page (empty data, or no cursor): the first request carries no
   cursor, request k+1 carries the cursor of page k, the call returns when
   the final page arrives and not before, and the list it holds is the
   concatenation of the items of all pages in page order. *)
C16_CursorChainAndConcat ==
    C16_Pre =>
        /\ Len(pag.sent) = Len(pag.pages)
        /\ Len(pag.sent) >= 1 => pag.sent[1] = NoCursor
        /\ \A k \in 1..(Len(pag.sent) - 1) : pag.sent[k + 1] = Cursor(k)
        /\ pag.items = ItemsOfPages(pag.pages, Len(pag.pages))
        /\ C16_FinalReceived => pag.pc = "returned"
        /\ ~C16_FinalReceived => pag.pc = "loop"

\* two full pages, then an empty page that still carries a cursor
C16_Witness ==
    /\ C16_Pre
    /\ Len(pag.pages) = 3
    /\ pag.pages[3].n = 0 /\ HasCursor(pag.pages[3])
    /\ pag.pc = "returned"
    /\ pag.items = Items(1, 2) \o Items(2, 2)

(* C17: in the paginators of Hotmart, Tally and TMB, when make_request
   raises the client's error on page k, the paginator returns (does not
   raise), page k is the last request, and the list returned is exactly the
   items of pages 1..k-1 in order. *)
C17_PartialOnError ==
    (PagCalled /\ pag.fn # "paginated_request") =>
        \A k \in 1..Len(pag.pages) :
            pag.pages[k].kind = "error" =>
                /\ Len(pag.sent) = k
                /\ pag.pc = "returned"
                /\ pag.items = ItemsOfPages(pag.pages, k - 1)

\* TMB: two full pages, then the client's error on the third
C17_Witness ==
    /\ PagCalled /\ pag.fn = "get_pedidos"
    /\ Len(pag.pages) = 3
    /\ pag.pages[3].kind = "error"
    /\ pag.pc = "returned"
    /\ Len(pag.items) = 4

(* C18: paginated_request with max_pages = N, N not None (0 included),
   makes at most N page requests and returns at most N pages. *)
C18_PageCapHonoured ==
    (PagCalled /\ pag.fn = "paginated_request" /\ pag.max_pages # None) =>
        /\ Len(pag.sent) <= pag.max_pages
        /\ pag.items = ItemsOfPages(pag.pages, Len(pag.pages))

----------------------------------------------------------------------------
(* sql_utils.DatabaseConnection.execute_batch_update.  One call is
   observed.  batch holds the arguments and locals of the call, the
   statement executions made on the connection (executions, in order) and
   the state of the transaction (tx; begins and commits count the
   transactions opened and committed) and, for observation, the outcome of
   each execution (outcomes) and the place a raise came from (raised_at).
   A step is the code before the for
   loop, one iteration of the loop, or the exit of the with block. *)

Min(a, b) == IF a < b THEN a ELSE b

\* ceil(n / d) for d >= 1
CeilDiv(n, d) == (n + d - 1) \div d

\* params_list: n parameter sets, told apart by their position
ParamsList(n) == [i \in 1..n |-> i]

\* params_list[i:i + batch_size], i counted from 0 as in the code
ChunkMut(params_list, i, batch_size) ==
    SubSeq(params_list, i + 1, Min(i + batch_size, Len(params_list)) - 1)
Chunk(params_list, i, batch_size) ==
    SubSeq(params_list, i + 1, Min(i + batch_size, Len(params_list)))

\* the return value for an empty params_list
EmptyOutcomeMut ==
    [pc |-> "returned", params_list |-> <<>>, batch_size |-> 0, i |-> 0,
     executions |-> <<>>, total_affected |-> 0, success |-> 0, failed |-> 0,
     errors |-> <<>>, batches |-> 0, tx |-> "open", commits |-> 0,
     begins |-> 1, outcomes |-> <<>>, raised_at |-> "none", show_progress |-> FALSE]
EmptyOutcome ==
    [pc |-> "returned", params_list |-> <<>>, batch_size |-> 0, i |-> 0,
     executions |-> <<>>, total_affected |-> 0, success |-> 0, failed |-> 0,
     errors |-> <<>>, batches |-> 0, tx |-> "none", commits |-> 0,
     begins |-> 0, outcomes |-> <<>>, raised_at |-> "none", show_progress |-> FALSE]

\* range(0, total_records, batch_size) raises ValueError for a zero step
RangeRaisesMut(batch_size) == batch_size <= 0
RangeRaises(batch_size) == batch_size = 0

\* the code before the for loop; begin_ok: engine.begin() opened a
\* transaction.  range(0, total_records, 0) raises ValueError inside the
\* with block, which rolls the transaction back and re-raises.
execute_batch_update_call(n, batch_size, show_progress, begin_ok) ==
    /\ batch = NotCalled
    /\ batch' =
          IF n = 0 THEN [EmptyOutcome EXCEPT !.batch_size = batch_size,
                                            !.show_progress = show_progress]
          ELSE LET b == [EmptyOutcome EXCEPT !.params_list = ParamsList(n),
                                            !.batch_size = batch_size,
                                            !.show_progress = show_progress,
                                            !.begins = 1] IN
               IF ~begin_ok THEN [b EXCEPT !.pc = "raised", !.raised_at = "begin"]
               ELSE IF RangeRaises(batch_size)
                    THEN [b EXCEPT !.pc = "raised", !.tx = "rolledback",
                                   !.raised_at = "range"]
                    ELSE [b EXCEPT !.pc = "loop", !.tx = "open"]
    /\ UNCHANGED <<core, issued, pag, lib>>

\* for i in range(0, total_records, batch_size): is there an iteration at i
BatchInRange(b) == b.batch_size > 0 /\ b.i < Len(b.params_list)

\* What conn.execute(text(query), batch) can do with a chunk of len
\* parameter sets: return a result whose rowcount is 0 or len, or raise.
ChunkOutcomes(len) ==
    {[ok |-> TRUE, rowcount |-> r] : r \in {0, len}} \cup {[ok |-> FALSE, rowcount |-> 0]}

\* batch_num = i // batch_size + 1
BatchNum(b) == (b.i \div b.batch_size) + 1

\* the rest of the try block after conn.execute returned
OnChunkSuccessMut(b, chunk, o) ==
    [b EXCEPT !.total_affected = @ + Len(chunk),
              !.success = @ + Len(chunk),
              !.batches = @ + 1]
OnChunkSuccess(b, chunk, o) ==
    [b EXCEPT !.total_affected = @ + o.rowcount,
              !.success = @ + Len(chunk),
              !.batches = @ + 1]

\* except Exception: count the chunk as failed, record the error, continue
OnChunkFailureMut(b, chunk, batch_num) ==
    [b EXCEPT !.failed = @ + 1,
              !.errors = Append(@, batch_num)]
OnChunkFailure(b, chunk, batch_num) ==
    [b EXCEPT !.failed = @ + Len(chunk),
              !.errors = Append(@, batch_num)]

\* one iteration of the for loop
execute_batch_update_chunk(o) ==
    /\ batch.pc = "loop"
    /\ BatchInRange(batch)
    /\ LET chunk == Chunk(batch.params_list, batch.i, batch.batch_size)
           b == [batch EXCEPT !.executions = Append(@, chunk),
                              !.outcomes = Append(@, o),
                              !.i = @ + batch.batch_size]
       IN
       /\ o \in ChunkOutcomes(Len(chunk))
       /\ batch' = IF o.ok
                   THEN OnChunkSuccess(b, chunk, o)
                   ELSE OnChunkFailure(b, chunk, BatchNum(batch))
    /\ UNCHANGED <<core, issued, pag, lib>>

\* engine.begin() as a context manager: leaving the with block normally
\* commits the transaction; the function then returns the outcome
CommitTransactionMut(b) == [b EXCEPT !.pc = "returned", !.tx = "open"]
CommitTransaction(b) == [b EXCEPT !.pc = "returned", !.tx = "committed", !.commits = @ + 1]

\* the report printed when show_progress is set divides total_records by
\* elapsed_time = time.time() - start_time, outside any try: when the two
\* clock readings are equal the division raises ZeroDivisionError
ReportRaises(b, elapsed_zero) == b.show_progress /\ elapsed_zero

\* the end of the for loop: the with block commits the transaction (when
\* the commit raises, the error is re-raised wrapped), then the report is
\* printed and the outcome returned
execute_batch_update_commit(commit_ok, elapsed_zero) ==
    /\ batch.pc = "loop"
    /\ ~BatchInRange(batch)
    /\ batch' = IF ~commit_ok
                THEN [batch EXCEPT !.pc = "raised", !.tx = "rolledback",
                                   !.raised_at = "commit"]
                ELSE IF ReportRaises(batch, elapsed_zero)
                     THEN [CommitTransaction(batch) EXCEPT !.pc = "raised",
                                                           !.raised_at = "report"]
                     ELSE CommitTransaction(batch)
    /\ UNCHANGED <<core, issued, pag, lib>>

BatchSizes == (-1)..MaxBatchSize

BatchInit ==
    /\ client = "none"
    /\ IdleCore
    /\ issued = <<>>
    /\ pag = NotCalled
    /\ batch = NotCalled
    /\ LibIdle

BatchNext ==
    \/ \E n \in 0..MaxRecords, s \in BatchSizes, sp \in BOOLEAN, ok \in BOOLEAN :
            execute_batch_update_call(n, s, sp, ok)
    \/ \E o \in UNION {ChunkOutcomes(l) : l \in 1..MaxBatchSize} :
            execute_batch_update_chunk(o)
    \/ \E ok \in BOOLEAN, ez \in BOOLEAN : execute_batch_update_commit(ok, ez)

BatchSpec == BatchInit /\ [][BatchNext]_vars

BatchCalled == batch.pc # "idle"

\* the concatenation of the first k executions
RECURSIVE Flatten(_, _)
Flatten(ex, k) == IF k = 0 THEN <<>> ELSE Flatten(ex, k - 1) \o ex[k]

(* C19: with n >= 1 parameter sets and batch_size >= 1, execution k (k from
   0) receives params_list[k*batch_size : (k+1)*batch_size]; a call that
   returns has made exactly ceil(n / batch_size) executions, which together
   pass every parameter set once, in input order; only the last chunk may
   be shorter than batch_size. *)
C19_ContiguousChunks ==
    (BatchCalled /\ Len(batch.params_list) >= 1 /\ batch.batch_size >= 1) =>
        LET n == Len(batch.params_list)
            size == batch.batch_size
            ex == batch.executions
        IN
        /\ Len(ex) <= CeilDiv(n, size)
        /\ \A k \in 1..Len(ex) :
                /\ ex[k] = [j \in 1..(Min(k * size, n) - (k - 1) * size) |->
                                batch.params_list[(k - 1) * size + j]]
                /\ k < CeilDiv(n, size) => Len(ex[k]) = size
                /\ Len(ex[k]) >= 1
        /\ batch.pc = "returned" =>
                /\ Len(ex) = CeilDiv(n, size)
                /\ Flatten(ex, Len(ex)) = batch.params_list

\* 5 parameter sets in chunks of 2, 2 and 1, the second chunk failing
C19_Witness ==
    /\ BatchCalled /\ batch.pc = "returned"
    /\ Len(batch.params_list) = 5 /\ batch.batch_size = 2
    /\ batch.executions = <<(<<1, 2>>), (<<3, 4>>), (<<5>>)>>
    /\ batch.errors = <<2>>

(* C20: the batches field of the outcome equals the number of chunks
   processed, ceil(total_records / batch_size), whichever chunks failed. *)
C20_BatchesCountsChunks ==
    (/\ BatchCalled /\ batch.pc = "returned"
     /\ Len(batch.params_list) >= 1 /\ batch.batch_size >= 1)
    => batch.batches = CeilDiv(Len(batch.params_list), batch.batch_size)

----------------------------------------------------------------------------
(* Observations on the execute_batch_update call *)

\* a non-empty params_list and a usable batch_size
BatchPre == BatchCalled /\ Len(batch.params_list) >= 1 /\ batch.batch_size >= 1

\* the chunks, among the first k executed, whose execution raised
FailedChunks(b, k) == {j \in 1..k : ~b.outcomes[j].ok}

\* total size of the first k executed chunks that failed (fl) or not
RECURSIVE SizeOfChunks(_, _, _)
SizeOfChunks(b, k, fl) ==
    IF k = 0 THEN 0
    ELSE SizeOfChunks(b, k - 1, fl)
            + (IF b.outcomes[k].ok # fl THEN Len(b.executions[k]) ELSE 0)

\* sum of the row counts of the successful chunks among the first k
RECURSIVE RowCounts(_, _)
RowCounts(b, k) ==
    IF k = 0 THEN 0
    ELSE RowCounts(b, k - 1) + (IF b.outcomes[k].ok THEN b.outcomes[k].rowcount ELSE 0)

\* the numbers of the failed chunks among the first k, in chunk order
RECURSIVE FailedNums(_, _)
FailedNums(b, k) ==
    IF k = 0 THEN <<>>
    ELSE IF b.outcomes[k].ok THEN FailedNums(b, k - 1)
         ELSE Append(FailedNums(b, k - 1), k)

\* the step is one iteration of the for loop
ChunkStep == BatchCalled /\ Len(batch'.executions) = Len(batch.executions) + 1

(* C21: non-empty params_list, batch_size >= 1: after each chunk
   success + failed is the number of records in the chunks processed so
   far, and in the returned outcome success + failed = total_records. *)
C21_SuccessPlusFailed ==
    BatchPre =>
        /\ batch.success + batch.failed
              = Len(Flatten(batch.executions, Len(batch.executions)))
        /\ batch.pc = "returned" =>
              batch.success + batch.failed = Len(batch.params_list)

\* 5 records in chunks of 3 and 2, the first chunk failing
C21_Witness ==
    /\ BatchPre /\ batch.pc = "returned"
    /\ Len(batch.params_list) = 5
    /\ batch.failed = 3 /\ batch.success = 2

(* C22: whichever chunks F raise a database error, no chunk makes the call
   raise and the loop goes on with the next chunk; failed is the total size
   of the chunks of F, success the total size of the others, total_affected
   the sum of the row counts of the successful chunks, and errors has one
   entry per chunk of F, in chunk order.  (A call that raises does so when
   the transaction is opened or committed, or in the final report.) *)
C22_StatePart ==
    BatchPre =>
        LET k == Len(batch.executions) IN
        /\ batch.failed = SizeOfChunks(batch, k, TRUE)
        /\ batch.success = SizeOfChunks(batch, k, FALSE)
        /\ batch.total_affected = RowCounts(batch, k)
        /\ batch.errors = FailedNums(batch, k)
        /\ Len(batch.errors) = Cardinality(FailedChunks(batch, k))
        /\ batch.pc = "raised" => batch.raised_at \in {"begin", "commit", "report"}
        /\ batch.pc = "returned" =>
              k = CeilDiv(Len(batch.params_list), batch.batch_size)

C22_StepPart == (ChunkStep /\ BatchPre) => batch'.pc = "loop"

C22_ChunkFailuresRecovered == [] C22_StatePart /\ [][C22_StepPart]_vars

\* chunks 1 and 3 of three failed, chunk 2 affected 2 rows
C22_Witness ==
    /\ BatchPre /\ batch.pc = "returned"
    /\ Len(batch.executions) = 3
    /\ batch.errors = <<1, 3>>
    /\ batch.success = 2 /\ batch.failed = 3 /\ batch.total_affected = 2

(* C23: for a non-empty params_list one transaction is opened for the whole
   run; every chunk is executed while it is open, nothing is committed
   between chunks, and it is committed exactly once, after the last chunk,
   also when chunks failed. *)
C23_StatePart ==
    (BatchCalled /\ Len(batch.params_list) >= 1) =>
        /\ batch.begins = 1
        /\ batch.pc = "loop" => (batch.tx = "open" /\ batch.commits = 0)
        /\ (batch.pc = "returned" \/ batch.raised_at = "report") =>
              /\ batch.tx = "committed" /\ batch.commits = 1
              /\ ~BatchInRange(batch)
        /\ (batch.pc = "raised" /\ batch.raised_at # "report") => batch.commits = 0

C23_StepPart ==
    ChunkStep =>
        /\ batch.tx = "open" /\ batch'.tx = "open"
        /\ batch'.commits = batch.commits /\ batch'.begins = batch.begins

C23_OneTransaction == [] C23_StatePart /\ [][C23_StepPart]_vars

\* three chunks, all failed, and the transaction committed once
C23_Witness ==
    /\ BatchPre /\ batch.pc = "returned"
    /\ Len(batch.executions) = 3
    /\ batch.failed = Len(batch.params_list)
    /\ batch.commits = 1 /\ batch.tx = "committed"

(* C24 as stated: the call raises only when opening the transaction
   fails. *)
C24_Original ==
    (BatchCalled /\ batch.pc = "raised") => batch.raised_at = "begin"

(* C24 amended: the call raises exactly when opening the transaction fails,
   when batch_size is 0 (range raises inside the with block), when the
   commit at the end of the with block fails, or when the final report
   divides by a zero elapsed time; a failing chunk never makes it raise,
   and a negative batch_size makes it return without executing anything. *)
C24_RaiseCauses ==
    BatchCalled =>
        /\ batch.pc = "raised" <=> batch.raised_at # "none"
        /\ batch.raised_at \in {"none", "begin", "range", "commit", "report"}
        /\ batch.raised_at = "begin" => (batch.tx = "none" /\ batch.executions = <<>>)
        /\ batch.raised_at = "range" <=>
              (/\ batch.batch_size = 0 /\ Len(batch.params_list) >= 1
               /\ batch.tx = "rolledback" /\ batch.executions = <<>>)
        /\ batch.raised_at = "commit" =>
              (batch.tx = "rolledback" /\ ~BatchInRange(batch))
        /\ batch.raised_at = "report" =>
              (batch.show_progress /\ batch.tx = "committed")
        /\ (batch.batch_size < 0 /\ batch.pc = "returned") => batch.executions = <<>>

\* the commit failed after a run in which a chunk had failed
C24_Witness ==
    /\ BatchCalled /\ batch.pc = "raised"
    /\ batch.raised_at = "commit"
    /\ batch.failed > 0 /\ batch.success > 0

(* C25: with an empty params_list the call returns the all-zero outcome
   without opening a transaction and without executing a statement. *)
C25_EmptyInput ==
    (BatchCalled /\ batch.params_list = <<>>) =>
        /\ batch.pc = "returned"
        /\ batch.total_affected = 0 /\ batch.batches = 0
        /\ batch.success = 0 /\ batch.failed = 0 /\ batch.errors = <<>>
        /\ batch.begins = 0 /\ batch.tx = "none" /\ batch.commits = 0
        /\ batch.executions = <<>>

C25_Witness ==
    /\ BatchCalled /\ batch.params_list = <<>>
    /\ batch.pc = "returned"
    /\ batch.batch_size = 0 /\ batch.show_progress

(* C40: with a non-empty params_list and a batch_size that is zero or
   negative the call raises and does not return an outcome, so that no
   returned outcome has success + failed below total_records. *)
C40_NonPositiveBatchSizeRaises ==
    (BatchCalled /\ Len(batch.params_list) >= 1 /\ batch.batch_size <= 0) =>
        /\ batch.pc # "returned"
        /\ batch.pc = "returned" =>
              batch.success + batch.failed >= Len(batch.params_list)

----------------------------------------------------------------------------
(* Construction of the clients: Hotmart.__init__, Tally.__init__,
   TMB.__init__ and SwitchyAPI.__init__.  The secrets come from the process
   environment (os.getenv) and, for Tally and SwitchyAPI, from the optional
   api_key argument, which takes precedence when it is a non-empty string.
   ctor.env is the environment of the process, chosen in CtorInit. *)

EnvVars ==
    {"HOTMART_CLIENT_ID", "HOTMART_CLIENT_SECRET", "HOTMART_BASIC_AUTH",
     "TALLY_API_KEY", "TMB_API_TOKEN", "SWITCHY_API_KEY"}

\* what os.getenv can give: None (variable not set), "" or a non-empty string
EnvValues == {NoToken, "", "env-secret"}

\* the api_key argument: None (the default), "" or a non-empty string
ApiKeyArgs == {NoToken, "", "arg-secret"}

Constructors == {"Hotmart", "Tally", "TMB", "SwitchyAPI"}

\* the constructors that take an api_key argument
TakesApiKey(c) == c \in {"Tally", "SwitchyAPI"}

\* truth value of an Optional[str]: None and "" are false
TruthyMut(s) == s # NoToken
Truthy(s) == s # NoToken /\ s # ""

\* Python's  a or b
Or(a, b) == IF Truthy(a) THEN a ELSE b

ConstructionRaised(c, api_key, env) ==
    [pc |-> "raised", client |-> c, api_key |-> api_key, env |-> env,
     error |-> "ValueError", secrets |-> <<>>]

Constructed(c, api_key, env, secrets) ==
    [pc |-> "constructed", client |-> c, api_key |-> api_key, env |-> env,
     error |-> "none", secrets |-> secrets]

\* Hotmart.__init__: the three credentials are read from the environment
HotmartInitCall(env) ==
    LET client_id == env["HOTMART_CLIENT_ID"]
        client_secret == env["HOTMART_CLIENT_SECRET"]
        basic_auth == env["HOTMART_BASIC_AUTH"]
    IN  IF ~(Truthy(client_id) /\ Truthy(client_secret) /\ Truthy(basic_auth))
        THEN ConstructionRaised("Hotmart", NoToken, env)
        ELSE Constructed("Hotmart", NoToken, env,
                         <<client_id, client_secret, basic_auth>>)

\* Tally.__init__(api_key) and SwitchyAPI.__init__(api_key):
\* self.api_key = api_key or os.getenv(variable)
ApiKeyInitCall(c, variable, api_key_arg, env) ==
    LET api_key == Or(api_key_arg, env[variable])
    IN  IF ~Truthy(api_key)
        THEN ConstructionRaised(c, api_key_arg, env)
        ELSE Constructed(c, api_key_arg, env, <<api_key>>)

\* TMB.__init__: the token is read from the environment
TMBInitCall(env) ==
    LET api_token == env["TMB_API_TOKEN"]
    IN  IF ~Truthy(api_token)
        THEN ConstructionRaised("TMB", NoToken, env)
        ELSE Constructed("TMB", NoToken, env, <<api_token>>)

\* the constructor of class c is called; it makes no network call
Construct(c, api_key) ==
    /\ ctor.pc = "idle"
    /\ TakesApiKey(c) \/ api_key = NoToken
    /\ ctor' = CASE c = "Hotmart" -> HotmartInitCall(ctor.env)
                 [] c = "Tally" -> ApiKeyInitCall(c, "TALLY_API_KEY", api_key, ctor.env)
                 [] c = "TMB" -> TMBInitCall(ctor.env)
                 [] c = "SwitchyAPI" ->
                        ApiKeyInitCall(c, "SWITCHY_API_KEY", api_key, ctor.env)
    /\ UNCHANGED <<core, issued, pag, batch, fetch, retry, switchy>>

\* a method of the constructed instance sends a request with its secrets
ClientNetworkCall ==
    /\ ctor.pc = "constructed"
    /\ network < MaxNetwork
    /\ network' = network + 1
    /\ UNCHANGED <<client, now, calls, op, pc, attempt, max_retries, trace, result,
                   hotmart, tally, aux>>

CtorInit ==
    /\ client = "none"
    /\ IdleCore
    /\ issued = <<>>
    /\ pag = NotCalled
    /\ batch = NotCalled
    /\ fetch = NotCalled
    /\ retry = NotCalled
    /\ switchy = NotCalled
    /\ ctor \in {[pc |-> "idle", env |-> e] : e \in [EnvVars -> EnvValues]}

CtorNext ==
    \/ \E c \in Constructors, k \in ApiKeyArgs : Construct(c, k)
    \/ ClientNetworkCall

CtorSpec == CtorInit /\ [][CtorNext]_vars

CtorCalled == ctor.pc # "idle"

Absent(s) == s = NoToken \/ s = ""

\* at least one required secret of the client is missing or empty
SecretMissing ==
    CASE ctor.client = "Hotmart" ->
            \E v \in {"HOTMART_CLIENT_ID", "HOTMART_CLIENT_SECRET", "HOTMART_BASIC_AUTH"} :
                Absent(ctor.env[v])
      [] ctor.client = "Tally" -> Absent(ctor.api_key) /\ Absent(ctor.env["TALLY_API_KEY"])
      [] ctor.client = "TMB" -> Absent(ctor.env["TMB_API_TOKEN"])
      [] ctor.client = "SwitchyAPI" ->
            Absent(ctor.api_key) /\ Absent(ctor.env["SWITCHY_API_KEY"])

(* C26: when at least one required secret is missing or empty, the
   constructor raises its configuration error (ValueError) and no network
   call has been or will be made by the instance; with all secrets present
   the instance is constructed and holds non-empty secrets. *)
C26_MissingSecretRaises ==
    CtorCalled =>
        /\ SecretMissing =>
              (ctor.pc = "raised" /\ ctor.error = "ValueError" /\ network = 0)
        /\ ~SecretMissing =>
              (/\ ctor.pc = "constructed"
               /\ \A i \in 1..Len(ctor.secrets) : ~Absent(ctor.secrets[i]))

\* Hotmart with only the basic auth empty
C26_Witness ==
    /\ CtorCalled /\ ctor.client = "Hotmart"
    /\ ctor.env["HOTMART_CLIENT_ID"] = "env-secret"
    /\ ctor.env["HOTMART_CLIENT_SECRET"] = "env-secret"
    /\ ctor.env["HOTMART_BASIC_AUTH"] = ""
    /\ ctor.pc = "raised"

----------------------------------------------------------------------------
(* api_utils.fetch_multiple_urls: one fetch_one coroutine per url, awaited
   together with asyncio.gather (return_exceptions is left False).
   gather wraps the coroutines in tasks, which all start before any of
   them can complete; a task completes when its request has been answered
   and response.json() has been evaluated, or when either raised.  The
   completion of a task and the done-callback gather attached to it are
   one step (the event loop runs the callbacks in completion order). *)

\* the JSON value answered for the i-th url
JsonOf(i) == 10 * i

\* how fetch_one ends: response.json() is returned, async_make_request
\* raises (transport error, or HTTPStatusError from raise_for_status), or
\* response.json() raises
TaskOutcomes == {"json", "HTTPError", "JSONDecodeError"}

AllInFlight(n) == [i \in 1..n |-> "inflight"]

\* what gather does with its other tasks when one raised: nothing
GatherOnExceptionMut(tasks) ==
    [i \in DOMAIN tasks |-> IF tasks[i] = "inflight" THEN "cancelled" ELSE tasks[i]]
GatherOnException(tasks) == tasks

\* gather's results: one per task, in the order of the arguments
GatherResultsMut(n) == [i \in 1..n |-> JsonOf(n + 1 - i)]

GatherResults(n) == [i \in 1..n |-> JsonOf(i)]

fetch_multiple_urls_call(n) ==
    /\ fetch = NotCalled
    /\ fetch' = IF n = 0
                THEN [pc |-> "returned", tasks |-> <<>>, order |-> <<>>,
                      result |-> <<>>, error |-> 0, exc |-> "none"]
                ELSE [pc |-> "waiting", tasks |-> AllInFlight(n), order |-> <<>>,
                      result |-> <<>>, error |-> 0, exc |-> "none"]
    /\ UNCHANGED <<core, issued, pag, batch, ctor, retry, switchy>>

\* task i completes, with a JSON value or with an exception
TaskDone(i, o) ==
    /\ fetch.pc # "idle"
    /\ i \in DOMAIN fetch.tasks
    /\ fetch.tasks[i] = "inflight"
    /\ LET ok == o = "json"
           tasks == [fetch.tasks EXCEPT ![i] = IF ok THEN "done" ELSE "failed"]
           f == [fetch EXCEPT !.tasks = tasks, !.order = Append(@, i)]
       IN  fetch' =
             IF fetch.pc # "waiting" THEN f
             ELSE IF ~ok
                  THEN [f EXCEPT !.pc = "raised", !.error = i, !.exc = o,
                                 !.tasks = GatherOnException(tasks)]
             ELSE IF \A j \in DOMAIN tasks : tasks[j] = "done"
                  THEN [f EXCEPT !.pc = "returned",
                                 !.result = GatherResults(Len(tasks))]
             ELSE f
    /\ UNCHANGED <<core, issued, pag, batch, ctor, retry, switchy>>

FetchInit ==
    /\ client = "none"
    /\ IdleCore
    /\ issued = <<>>
    /\ pag = NotCalled
    /\ batch = NotCalled
    /\ ctor = NotCalled
    /\ retry = NotCalled
    /\ switchy = NotCalled
    /\ fetch = NotCalled

FetchNext ==
    \/ \E n \in 0..MaxUrls : fetch_multiple_urls_call(n)
    \/ \E i \in 1..MaxUrls, o \in TaskOutcomes : TaskDone(i, o)

FetchSpec == FetchInit /\ [][FetchNext]_vars

FetchCalled == fetch.pc # "idle"

\* the tasks that have raised
FailedTasks == {i \in DOMAIN fetch.tasks : fetch.tasks[i] = "failed"}

\* the first task, in completion order, that raised (0 when none has)
FirstFailed ==
    IF FailedTasks = {} THEN 0
    ELSE fetch.order[CHOOSE k \in DOMAIN fetch.order :
                        /\ fetch.order[k] \in FailedTasks
                        /\ \A l \in 1..(k - 1) : fetch.order[l] \notin FailedTasks]

(* C27: in every interleaving of the completions, as soon as one request
   has failed the caller has the exception of the first failed task and no
   result list, and this is final; no other task is cancelled: the ones in
   flight stay in flight until they complete.  The call returns only when
   every task succeeded, with the values in the order of the urls. *)
C27_StatePart ==
    FetchCalled =>
        /\ FailedTasks # {} <=> fetch.pc = "raised"
        /\ fetch.pc = "raised" =>
              (/\ fetch.error = FirstFailed /\ fetch.result = <<>>
               /\ fetch.exc \in TaskOutcomes \ {"json"})
        /\ \A i \in DOMAIN fetch.tasks : fetch.tasks[i] # "cancelled"
        /\ fetch.pc = "returned" =>
              /\ \A i \in DOMAIN fetch.tasks : fetch.tasks[i] = "done"
              /\ fetch.result = [i \in DOMAIN fetch.tasks |-> JsonOf(i)]
        /\ fetch.pc = "waiting" => \E i \in DOMAIN fetch.tasks : fetch.tasks[i] = "inflight"

C27_StepPart ==
    (FetchCalled /\ fetch.pc = "raised") =>
        /\ fetch'.pc = "raised" /\ fetch'.result = <<>>
        /\ fetch'.error = fetch.error /\ fetch'.exc = fetch.exc
        /\ \A i \in DOMAIN fetch.tasks :
              fetch'.tasks[i] # fetch.tasks[i] =>
                  (fetch.tasks[i] = "inflight" /\ fetch'.tasks[i] \in {"done", "failed"})

C27_FailurePropagates == [] C27_StatePart /\ [][C27_StepPart]_vars

\* the second of three requests failed first; the first one completed
\* afterwards and the third is still in flight
C27_Witness ==
    /\ FetchCalled /\ fetch.pc = "raised"
    /\ fetch.error = 2 /\ fetch.exc = "HTTPError"
    /\ fetch.order = <<2, 1>>
    /\ fetch.tasks = <<"done", "failed", "inflight">>

(* C37: when fetch_multiple_urls returns, its list has one element per url
   and the i-th element is the JSON body of the response to urls[i],
   whatever the order in which the requests completed. *)
C37_ResultsInUrlOrder ==
    (FetchCalled /\ fetch.pc = "returned") =>
        /\ Len(fetch.result) = Len(fetch.tasks)
        /\ Len(fetch.order) = Len(fetch.tasks)
        /\ \A k \in DOMAIN fetch.order :
              fetch.result[fetch.order[k]] = JsonOf(fetch.order[k])

\* three requests completed last-first-second, and the list is in url order
C37_Witness ==
    /\ FetchCalled /\ fetch.pc = "returned"
    /\ fetch.order = <<3, 1, 2>>
    /\ fetch.result = <<JsonOf(1), JsonOf(2), JsonOf(3)>>

----------------------------------------------------------------------------
(* api_utils.retry_on_failure(max_retries, delay): the wrapper it returns.
   wrapper_call is the code before the for loop, wrapper_attempt one
   iteration of the loop, with the sleep that follows a failure and, after
   the last iteration, the raise that follows the loop. *)

\* delay argument; time.sleep raises ValueError for a negative length
Delays == {-1, 0, 1}

\* what one invocation of the wrapped function does: return a value or
\* raise an exception (a subclass of Exception)
FuncOutcomes ==
    {[ok |-> TRUE, val |-> v] : v \in {"r1", "r2"}}
        \cup {[ok |-> FALSE, val |-> e] : e \in {"E1", "E2"}}

\* Python's  raise last_exception : raising None is a TypeError
RaiseLast(last_exception) ==
    IF last_exception = NoToken THEN "TypeError" ELSE last_exception

\* for attempt in range(max_retries): the loop has an iteration left
RetryInRange(r) == r.attempt < r.max_retries

wrapper_call(n, d) ==
    /\ retry = NotCalled
    /\ LET r == [pc |-> "loop", max_retries |-> n, delay |-> d, attempt |-> 0,
                 invocations |-> <<>>, sleeps |-> <<>>,
                 last_exception |-> NoToken, result |-> NoToken]
       IN  retry' = IF RetryInRange(r) THEN r
                    ELSE [r EXCEPT !.pc = "raised",
                                   !.result = RaiseLast(r.last_exception)]
    /\ UNCHANGED <<core, issued, pag, batch, ctor, fetch, switchy>>

wrapper_attempt(o) ==
    /\ retry.pc = "loop"
    /\ LET r == [retry EXCEPT !.invocations = Append(@, o)]
           wait == r.delay * (r.attempt + 1)
       IN  retry' =
             IF o.ok THEN [r EXCEPT !.pc = "returned", !.result = o.val]
             ELSE LET e == [r EXCEPT !.last_exception = o.val] IN
                  IF e.attempt < e.max_retries - 1 /\ wait < 0
                  THEN [e EXCEPT !.pc = "raised", !.result = "ValueError"]
                  ELSE LET s == IF e.attempt < e.max_retries - 1
                                THEN [e EXCEPT !.sleeps = Append(@, wait)]
                                ELSE e
                           n == [s EXCEPT !.attempt = @ + 1]
                       IN  IF RetryInRange(n) THEN n
                           ELSE [n EXCEPT !.pc = "raised",
                                          !.result = RaiseLast(n.last_exception)]
    /\ UNCHANGED <<core, issued, pag, batch, ctor, fetch, switchy>>

RetryInit ==
    /\ client = "none"
    /\ IdleCore
    /\ issued = <<>>
    /\ pag = NotCalled
    /\ batch = NotCalled
    /\ ctor = NotCalled
    /\ fetch = NotCalled
    /\ switchy = NotCalled
    /\ retry = NotCalled

RetryNext ==
    \/ \E n \in 0..MaxRetriesArg, d \in Delays : wrapper_call(n, d)
    \/ \E o \in FuncOutcomes : wrapper_attempt(o)

RetrySpec == RetryInit /\ [][RetryNext]_vars

RetryCalled == retry.pc # "idle"

(* C28: for every max_retries >= 0 the wrapped function is invoked at most
   max_retries times; a call that returns returns the result of the first
   successful invocation, which is the last one made; a call that raises
   has seen every invocation raise and raises the exception of the last
   invocation. *)
C28_RetryContract ==
    RetryCalled =>
        LET k == Len(retry.invocations) IN
        /\ k <= retry.max_retries
        /\ \A j \in 1..(k - 1) : ~retry.invocations[j].ok
        /\ retry.pc = "returned" =>
              (k >= 1 /\ retry.invocations[k].ok
                      /\ retry.result = retry.invocations[k].val)
        /\ retry.pc = "raised" =>
              (k >= 1 /\ ~retry.invocations[k].ok
                      /\ retry.result = retry.invocations[k].val)

----------------------------------------------------------------------------
(* make_request: what crosses the public boundary *)

\* the last data request of the call in progress
LastRequest == Requests[NumRequests]

(* C29 as stated: a make_request that returns normally returns a response
   with a 2xx status, and every other terminating make_request raises the
   error class of its client. *)
C29_Original ==
    (InMakeRequest /\ Finished) =>
        /\ pc = "returned" =>
              (result.kind = "return" /\ result.status >= 200 /\ result.status < 300)
        /\ pc = "raised" =>
              (result.kind = "raise" /\ result.error = ClientError)

(* C29 amended: a make_request that returns normally returns the response
   of its last request, whose status is one raise_for_status accepts: any
   status below 400 (2xx, but also 304 or another 3xx that requests hands
   over); every other terminating make_request, for any max_retries >= 0,
   raises the error class of its client. *)
C29_ReturnsAcceptedStatus ==
    (InMakeRequest /\ Finished) =>
        /\ pc = "returned" =>
              /\ result.kind = "return"
              /\ result.status < 400 /\ result.status >= 200
              /\ NumRequests >= 1
              /\ LastRequest.kind = "response" /\ LastRequest.status = result.status
        /\ pc = "raised" =>
              (result.kind = "raise" /\ result.error = ClientError)

\* a 304 answer is returned to the caller
C29_Witness ==
    /\ InMakeRequest /\ pc = "returned"
    /\ result.status = 304
    /\ NumRequests = 2

----------------------------------------------------------------------------
(* make_request answered 429: the same operations as in Spec, with the
   answers drawn from 200 and 429 responses whose rate-limit headers are
   absent, malformed, zero or positive. *)

RateLimitedHeaders ==
    {[limit |-> l, remaining |-> Num(5), reset |-> r] :
        l \in {Missing, Bad}, r \in {Missing, Bad, Num(0), Num(45)}}

RateLimitedOutcomes == {Response(s, h) : s \in {200, 429}, h \in RateLimitedHeaders}

RateLimitedNext ==
    \/ \E mr \in 0..MaxRetriesArg : TMBMakeRequest(mr)
    \/ \E o \in RateLimitedOutcomes : TMBAttempt(o)
    \/ TMBExhausted
    \/ \E mr \in 0..MaxRetriesArg, o \in AuthInputs(HotmartNeedsAuth(hotmart, now)) :
            HotmartMakeRequest(mr, o)
    \/ \E o \in RateLimitedOutcomes : HotmartAttempt(o)
    \/ HotmartExhausted
    \/ \E mr \in 0..MaxRetriesArg : TallyMakeRequest(mr)
    \/ \E o \in RateLimitedOutcomes : TallyAttempt(o)
    \/ TallyExhausted

RateLimitedSpec == Init /\ [][RateLimitedNext]_vars

\* the step is an attempt answered by the 429 response o, with attempts
\* remaining
Retry429Step(o) ==
    /\ o.kind = "response" /\ o.status = 429
    /\ HotmartAttempt(o) \/ TallyAttempt(o) \/ TMBAttempt(o)
    /\ pc' = "loop"

\* the wait the 429 response o calls for
WaitCalledFor(o) ==
    IF client = "Hotmart" /\ o.headers.reset.tag = "int" /\ o.headers.reset.val > 0
    THEN o.headers.reset.val
    ELSE 60

(* C30: a 429 with attempts remaining is followed by one sleep of a
   positive duration: in Hotmart the reset value of that 429 response when
   it is a positive integer and 60 seconds otherwise, in Tally and TMB 60
   seconds. *)
C30_WaitAfter429 ==
    [][\A o \in RateLimitedOutcomes :
          Retry429Step(o) =>
              /\ WaitCalledFor(o) > 0
              /\ trace'[Len(trace')] = SleepEv("rate429", WaitCalledFor(o))]_vars

----------------------------------------------------------------------------
(* Tally: the sliding-window step of _check_rate_limit (LimiterSpec) *)

\* the step is one _check_rate_limit call followed by its request
LimiterStep == issued' # issued

\* the tracked history without the timestamps that left the window
Pruned == SelectSeq(tally.request_times, LAMBDA x : x > now - 60)

(* C31: after a _check_rate_limit call that had to wait the tracked history
   is empty; after a call that did not wait it is the pruned history
   followed by the current timestamp. *)
C31_SlidingWindowStep ==
    [][LimiterStep =>
          IF now' > now
          THEN tally'.request_times = <<>>
          ELSE tally'.request_times = Append(Pruned, now)]_vars

\* s is in non-decreasing order
NonDecreasing(s) == \A i, j \in DOMAIN s : i < j => s[i] <= s[j]

(* C39: after every _check_rate_limit call, the clock never going back,
   request_times is in non-decreasing order, so that its first entry is the
   oldest tracked request, and holds at most RATE_LIMIT entries. *)
C39_HistoryOrderedAndBounded ==
    /\ NonDecreasing(tally.request_times)
    /\ Len(tally.request_times) <= RATE_LIMIT
    /\ \A i \in DOMAIN tally.request_times :
          tally.request_times[1] <= tally.request_times[i]

\* the history is full and spans two instants: the next call has to wait
C39_Witness ==
    /\ Len(issued) = RATE_LIMIT
    /\ Len(tally.request_times) = RATE_LIMIT
    /\ tally.request_times[1] < tally.request_times[RATE_LIMIT]

\* the step is one iteration of the loop of Tally.make_request
TallyAttemptStep == client = "Tally" /\ pc = "loop" /\ network' = network + 1

\* positions of the trace holding a _check_rate_limit call
CheckIdx == {i \in 1..Len(trace) : trace[i].ev = "check_rate_limit"}

\* the check that precedes the request at position i: the closest one
\* before it, with nothing but the limiter's own sleep in between
CheckedBefore(i) ==
    \/ i >= 2 /\ trace[i - 1].ev = "check_rate_limit"
    \/ /\ i >= 3 /\ trace[i - 2].ev = "check_rate_limit"
       /\ trace[i - 1].ev = "sleep" /\ trace[i - 1].kind = "limiter"

(* C32: in Tally.make_request every network attempt, whatever the answer
   of the attempt before it (429, timeout, transport error), is preceded
   by one _check_rate_limit call of its own, and every attempt appends
   exactly one timestamp, the time at which the attempt began, to
   request_times, whether the attempt then succeeds or fails. *)
C32_StatePart ==
    (client = "Tally" /\ InMakeRequest) =>
        /\ Cardinality(CheckIdx) = NumRequests
        /\ \A i \in RequestIdx : CheckedBefore(i)
        /\ NumRequests >= 1 => Len(tally.request_times) >= 1

C32_StepPart ==
    TallyAttemptStep =>
        /\ NumRequests' = NumRequests + 1
        /\ \/ tally'.request_times = Append(Pruned, now)
           \/ tally'.request_times = <<now>>

C32_EveryAttemptChecked == [] C32_StatePart /\ [][C32_StepPart]_vars

\* three failed attempts (timeout, transport error, 429) left three
\* timestamps
C32_Witness ==
    /\ client = "Tally" /\ InMakeRequest /\ Finished
    /\ NumRequests = 3
    /\ Requests[1].kind = "timeout" /\ Requests[2].kind = "connection"
    /\ Requests[3].status = 429
    /\ tally.request_times = <<StartTime, StartTime + 1, StartTime + 3>>

----------------------------------------------------------------------------
(* TMB.get_pedidos and api_utils.paginated_request: page numbers (PagSpec) *)

\* request i carries the page number first + i - 1
ConsecutivePages(sent) == \A i \in 1..Len(sent) : sent[i] = sent[1] + i - 1

\* the answer is a page that is empty or holds fewer than page_size items
ShortPage(r, page_size) == IsPage(r) /\ (r.n = 0 \/ r.n < page_size)

(* C33: get_pedidos requests the consecutive page numbers page_number,
   page_number + 1, ...; the first page that is empty or holds fewer than
   page_size items is the last one requested, and the call has then
   returned the concatenation of the fetched pages in order; as long as
   the pages are full the call goes on, so a total that is a multiple of
   page_size costs one more request, answered by an empty page. *)
C33_StopsOnShortPage ==
    (PagCalled /\ pag.fn = "get_pedidos") =>
        /\ ConsecutivePages(pag.sent)
        /\ Len(pag.sent) >= 1 => pag.sent[1] \in PageNumberArgs
        /\ pag.items = ItemsOfPages(pag.pages, Len(pag.pages))
        /\ \A k \in 1..Len(pag.pages) :
              ShortPage(pag.pages[k], pag.page_size) =>
                  (Len(pag.sent) = k /\ pag.pc = "returned")
        /\ \A k \in 1..Len(pag.pages) :
              (IsPage(pag.pages[k]) /\ ~ShortPage(pag.pages[k], pag.page_size)) =>
                  (pag.pc = "loop" \/ Len(pag.sent) > k)
        /\ pag.pc = "loop" => pag.cursor = (IF pag.sent = <<>> THEN pag.cursor
                                            ELSE pag.sent[1] + Len(pag.sent))

\* four items in two full pages of two, from page 3 on: a third request,
\* answered by an empty page, ends the call
C33_Witness ==
    /\ PagCalled /\ pag.fn = "get_pedidos" /\ pag.pc = "returned"
    /\ pag.page_size = 2
    /\ pag.sent = <<3, 4, 5>>
    /\ pag.pages[1].n = 2 /\ pag.pages[2].n = 2
    /\ IsPage(pag.pages[3]) /\ pag.pages[3].n = 0
    /\ Len(pag.items) = 4

\* the answer has one of the three page shapes
ShapedPage(r) == r.kind \in {"list", "results", "data"}

\* paginated_request without a page cap, served shaped pages only
C34_Pre ==
    /\ PagCalled /\ pag.fn = "paginated_request" /\ pag.max_pages = None
    /\ \A k \in 1..Len(pag.pages) : ShapedPage(pag.pages[k])

(* C34: paginated_request with max_pages = None, served pages in the
   shapes list, {'results': [...]} or {'data': [...]}: the requests carry
   the page numbers 1, 2, 3, ... in order, the call returns when the first
   page with an empty item list arrives and not before, and the list it
   holds is the concatenation of the items of the earlier pages in page
   order. *)
C34_ConcatUntilEmptyPage ==
    C34_Pre =>
        /\ \A i \in 1..Len(pag.sent) : pag.sent[i] = i
        /\ pag.pc \in {"loop", "returned"}
        /\ pag.items = ItemsOfPages(pag.pages, Len(pag.pages))
        /\ \A k \in 1..Len(pag.pages) :
              pag.pages[k].n = 0 =>
                  /\ Len(pag.sent) = k /\ pag.pc = "returned"
                  /\ pag.items = ItemsOfPages(pag.pages, k - 1)
        /\ pag.pc = "returned" =>
              (Len(pag.pages) >= 1 /\ pag.pages[Len(pag.pages)].n = 0)
        /\ pag.pc = "loop" => pag.cursor = Len(pag.sent) + 1

\* a list page, a 'results' page and an empty 'data' page
C34_Witness ==
    /\ C34_Pre /\ pag.pc = "returned"
    /\ pag.sent = <<1, 2, 3>>
    /\ pag.pages[1].kind = "list" /\ pag.pages[1].n = 2
    /\ pag.pages[2].kind = "results" /\ pag.pages[2].n = 1
    /\ pag.pages[3].kind = "data" /\ pag.pages[3].n = 0
    /\ pag.items = Items(1, 2) \o Items(2, 1)

----------------------------------------------------------------------------
(* switchy_utils.SwitchyAPI.  One method call is observed: _execute_query
   itself, or update_link_rotator / set_link_rotator_custom, which build
   the rotator and hand it to _execute_query.  switchy holds the call: the
   rotator weights sent as variables, the number of requests.post calls
   (posts) and the outcome.  A step is the code of the method up to the
   network call, or the network call with everything that follows it. *)

\* what requests.post gives _execute_query: a timeout, another transport
\* error, or a response; the body of a response is a JSON object (with or
\* without 'errors' and 'data'), another JSON value, or not JSON at all
QueryStatuses == {200, 204, 400, 500}

QueryResponse(st, js, er, da) ==
    [kind |-> "response", status |-> st, json |-> js, errors |-> er, data |-> da]

QueryAnswers ==
    {QueryResponse(st, "object", er, da) :
        st \in QueryStatuses,
        er \in {"absent", "empty", "nonempty"},
        da \in {"absent", "null", "object"}}
    \cup {QueryResponse(st, js, "absent", "absent") :
            st \in QueryStatuses, js \in {"invalid", "array"}}
    \cup {[kind |-> k, status |-> 0, json |-> "invalid", errors |-> "absent",
           data |-> "absent"] : k \in {"timeout", "connection"}}

\* if "errors" in data and data["errors"]
HasGraphQLErrorsMut(o) == o.errors # "absent"
HasGraphQLErrors(o) == o.errors = "nonempty"

QueryRaised(e, m) == [pc |-> "raised", value |-> "none", error |-> e, msg |-> m]
QueryReturned(v) == [pc |-> "returned", value |-> v, error |-> "none", msg |-> "none"]

\* _execute_query after requests.post was answered by o.  response.json()
\* raises on a body that is not JSON: a RequestException, which the last
\* except clause wraps, or with an older requests library a plain
\* ValueError, which nothing catches (wrapped says which).
ExecuteQuery(o, wrapped) ==
    IF o.kind = "timeout" THEN QueryRaised("Exception", "timeout")
    ELSE IF o.kind = "connection" THEN QueryRaised("Exception", "request")
    ELSE IF o.status # 200 THEN QueryRaised("Exception", "status")
    ELSE IF o.json = "invalid"
         THEN (IF wrapped THEN QueryRaised("Exception", "request")
               ELSE QueryRaised("JSONDecodeError", "json"))
    ELSE IF o.json = "array" THEN QueryRaised("AttributeError", "get")
    ELSE IF HasGraphQLErrors(o) THEN QueryRaised("Exception", "graphql")
    ELSE QueryReturned(CASE o.data = "absent" -> "{}"
                         [] o.data = "null" -> "None"
                         [] OTHER -> "data")

\* result.get("update_links", {}) in the public methods
GetUpdateLinks(q) ==
    IF q.pc = "returned" /\ q.value = "None" THEN QueryRaised("AttributeError", "get")
    ELSE IF q.pc = "returned" THEN QueryReturned("update_links")
    ELSE q

SwitchyCall(method, rotator) ==
    [pc |-> "query", op |-> method, rotator |-> rotator, posts |-> 0,
     answer |-> [kind |-> "none"], value |-> "none", error |-> "none", msg |-> "none"]

\* _execute_query called directly
execute_query_call ==
    /\ switchy = NotCalled
    /\ switchy' = SwitchyCall("_execute_query", <<>>)
    /\ UNCHANGED <<core, issued, pag, batch, ctor, fetch, retry>>

\* share = 100 // (n + 1); a share of 0 is replaced by 1
RotatorShare(n) ==
    LET share == 100 \div (n + 1) IN IF share <= 0 THEN 1 ELSE share

\* the rotator update_link_rotator builds for n extra URLs
Rotator(n) == IF n <= 0 THEN <<>> ELSE [i \in 1..n |-> RotatorShare(n)]

update_link_rotator_call(n) ==
    /\ switchy = NotCalled
    /\ switchy' = SwitchyCall("update_link_rotator", Rotator(n))
    /\ UNCHANGED <<core, issued, pag, batch, ctor, fetch, retry>>

RECURSIVE SumWeights(_, _)
SumWeights(w, k) == IF k = 0 THEN 0 ELSE SumWeights(w, k - 1) + w[k]

\* urls_with_weights arguments of set_link_rotator_custom
CustomWeights == {<<>>, <<70, 30>>, <<70, 31>>, <<100>>, <<101>>}

\* set_link_rotator_custom up to its network call: total > 100 raises
set_link_rotator_custom_call(w) ==
    /\ switchy = NotCalled
    /\ LET total == SumWeights(w, Len(w))
           c == SwitchyCall("set_link_rotator_custom", w)
       IN  switchy' = IF total > 100
                      THEN [c EXCEPT !.pc = "raised", !.error = "ValueError",
                                     !.msg = "total"]
                      ELSE c
    /\ UNCHANGED <<core, issued, pag, batch, ctor, fetch, retry>>

\* requests.post is answered by o; the method finishes
execute_query_answer(o, wrapped) ==
    /\ switchy.pc = "query"
    /\ LET q == ExecuteQuery(o, wrapped)
           r == IF switchy.op = "_execute_query" THEN q ELSE GetUpdateLinks(q)
       IN  switchy' = [switchy EXCEPT !.posts = @ + 1, !.answer = o,
                                      !.pc = r.pc, !.value = r.value,
                                      !.error = r.error, !.msg = r.msg]
    /\ UNCHANGED <<core, issued, pag, batch, ctor, fetch, retry>>

SwitchyInit ==
    /\ client = "none"
    /\ IdleCore
    /\ issued = <<>>
    /\ pag = NotCalled
    /\ batch = NotCalled
    /\ LibIdle

SwitchyNext ==
    \/ execute_query_call
    \/ \E n \in 0..MaxExtras : update_link_rotator_call(n)
    \/ \E w \in CustomWeights : set_link_rotator_custom_call(w)
    \/ \E o \in QueryAnswers, wrapped \in BOOLEAN : execute_query_answer(o, wrapped)

SwitchySpec == SwitchyInit /\ [][SwitchyNext]_vars

\* _execute_query has finished
QueryDone ==
    /\ switchy.pc \in {"returned", "raised"}
    /\ switchy.op = "_execute_query"

\* the answers for which C35 says _execute_query raises
ClaimedToRaise(o) ==
    \/ o.kind \in {"timeout", "connection"}
    \/ o.status # 200
    \/ o.errors = "nonempty"

\* the data field of the answer, an empty mapping when absent
DataField(o) ==
    CASE o.data = "absent" -> "{}" [] o.data = "null" -> "None" [] OTHER -> "data"

(* C35 as stated: _execute_query makes exactly one network call; it raises
   when the status is not 200, when the JSON has a non-empty errors array,
   on timeout and on any transport error, and otherwise returns the data
   field of the response. *)
C35_Original ==
    QueryDone =>
        /\ switchy.posts = 1
        /\ ClaimedToRaise(switchy.answer) => switchy.pc = "raised"
        /\ ~ClaimedToRaise(switchy.answer) =>
              (switchy.pc = "returned" /\ switchy.value = DataField(switchy.answer))

(* C35 amended: _execute_query makes exactly one network call and never
   retries; it raises when the status is not 200, when the JSON object has
   a non-empty errors array, on timeout, on any transport error, and also
   when the body of a 200 response is not JSON or not a JSON object; in
   every other case it returns the data field of the response (an empty
   mapping when absent), an empty errors array included. *)
C35_OneCallNoRetry ==
    (switchy.pc # "idle" /\ switchy.op = "_execute_query") =>
        /\ switchy.pc = "query" <=> switchy.posts = 0
        /\ QueryDone =>
            LET o == switchy.answer IN
            /\ switchy.posts = 1
            /\ (ClaimedToRaise(o) \/ o.json # "object") <=> switchy.pc = "raised"
            /\ switchy.pc = "returned" => switchy.value = DataField(o)
            /\ (ClaimedToRaise(o) /\ switchy.pc = "raised") => switchy.error = "Exception"

\* a 200 answer with an empty errors array and data is returned
C35_Witness ==
    /\ QueryDone /\ switchy.pc = "returned"
    /\ switchy.answer.status = 200
    /\ switchy.answer.errors = "empty"
    /\ switchy.value = "data" /\ switchy.posts = 1

(* C36: update_link_rotator with N >= 1 extra URLs gives each extra the
   weight floor(100 / (N + 1)), and the weights sent to the server never
   sum to more than 100. *)
C36_RotatorWeights ==
    (switchy.pc # "idle" /\ switchy.op = "update_link_rotator"
        /\ Len(switchy.rotator) >= 1) =>
        LET n == Len(switchy.rotator) IN
        /\ \A i \in 1..n : switchy.rotator[i] = 100 \div (n + 1)
        /\ 100 - SumWeights(switchy.rotator, n) >= 0

----------------------------------------------------------------------------
(* The Hotmart client in front of an auth endpoint whose 2xx answers may
   carry an expires_in member that is not a number. *)

AnyAuthOutcomes ==
    {AuthResponse(200, h, b) : h \in HeaderSets, b \in AnyAuthBodies}
      \cup {AuthResponse(404, h, Missing) : h \in HeaderSets}
      \cup {Timeout, ConnectionError}

AnyAuthInputs(called) == IF called THEN AnyAuthOutcomes ELSE {Timeout}

TokenInit == Init /\ client = "Hotmart"

TokenNext ==
    \/ \E mr \in 0..MaxRetriesArg, o \in AnyAuthInputs(HotmartNeedsAuth(hotmart, now)) :
            HotmartMakeRequest(mr, o)
    \/ \E o \in Outcomes : HotmartAttempt(o)
    \/ HotmartExhausted
    \/ \E o \in AnyAuthInputs(HotmartRefreshCondition(hotmart, now)) : HotmartRefreshToken(o)
    \/ \E o \in AnyAuthOutcomes : HotmartAuthenticateCall(o)
    \/ \E d \in TickSteps : Tick(d)

TokenSpec == TokenInit /\ [][TokenNext]_vars

\* the step is a call of authenticate, answered by o, that returns
AuthenticatedStep(o) == HotmartAuthenticateCall(o) /\ pc' = "returned"

(* C38: access_token is set exactly when token_expiry is set, in every
   state the client reaches through authenticate, refresh_token and
   make_request; and a call of authenticate that returns leaves
   token_expiry at the time of the call plus expires_in seconds, 3600 when
   the answer has no expires_in. *)
C38_StatePart ==
    hotmart.access_token # NoToken <=> hotmart.token_expiry # None

C38_StepPart ==
    \A o \in AnyAuthOutcomes :
        AuthenticatedStep(o) =>
            hotmart'.token_expiry =
                now + (IF o.body.tag = "missing" THEN 3600 ELSE o.body.val)

C38_TokenInvariant == [] C38_StatePart /\ [][C38_StepPart]_vars

====
